---- MODULE Spec2Model ----
(***************************************************************************)
(* very-express: the authentication guard (protect / socketProtect) and    *)
(* the data-access functions (_getAll, _getOne, _createOne, _updateOne,    *)
(* _deleteOne and their handlers) over the document store, the token       *)
(* service and the error taxonomy.                                         *)
(*                                                                         *)
(* JavaScript values are modelled as follows.                              *)
(*   - a string is the sequence of its space-separated words (what         *)
(*     split(' ') returns); undefined is the empty sequence <<>> and the   *)
(*     empty string '' is the one-word sequence <<E>>;                     *)
(*   - a word is a literal [lit |-> ..] or a signed token                  *)
(*     [sig |-> key, payload |-> object];                                  *)
(*   - an object is a record; an optional field is a field that may be     *)
(*     missing from the record's DOMAIN;                                   *)
(*   - an identifier is Str(x) or Num(n) (raw), ObjectId(x) (native) or    *)
(*     GeneratedId(time, index) (native, made by the driver).              *)
(***************************************************************************)
EXTENDS Integers, Sequences, FiniteSets, TLC

(* ------------------------------ bounds --------------------------------- *)
\* the clock runs over 0..MaxTime seconds
MaxTime == 2
\* the number of data-access calls in one behaviour
MaxOps == 2
\* page numbers and page sizes a caller asks for
MaxPage == 3
MaxLimit == 2

(* ---------------------------- JS values -------------------------------- *)
Undefined == [undefined |-> TRUE]
Null == [null |-> TRUE]
Unset == "undefined"
Str(x) == [str |-> x]
ObjectId(x) == [oid |-> x]
Lit(x) == [lit |-> x]
Num(n) == [num |-> n]
Bool(b) == [bool |-> b]
E == Lit("")
Bearer == Lit("Bearer")

\* JS truthiness of a string value: undefined and '' are falsy
Truthy(s) == s # <<>> /\ s # <<E>>
\* JS truthiness of a scalar value: undefined, null, '', 0 and false are falsy
Falsy(v) == v \in {Undefined, Null, Str(""), Num(0), Bool(FALSE)}
\* typeof v === 'string'
TypeofString(v) == ~(Len(v) = 1 /\ "object" \in DOMAIN v[1])
\* s.startsWith('Bearer'): the first word begins with Bearer
StartsWithBearer(s) == Len(s) >= 1 /\ "lit" \in DOMAIN s[1] /\ s[1].lit \in {"Bearer", "BearerX"}
\* s.split(' ')[1]: the second word, undefined when there is none
SplitAt1(s) == IF Len(s) >= 2 THEN <<s[2]>> ELSE <<>>
\* obj.field of a possibly missing string field
Field(obj, f) == IF f \in DOMAIN obj THEN obj[f] ELSE Unset

(* ----------------------------- parsers --------------------------------- *)
toStr(value, fallbackString) == IF value # Unset THEN value ELSE fallbackString
\* parseInt(value, 10), or the fallback for NaN; a number given is Num(n)
toInt(value, fallbackValue) == IF "num" \in DOMAIN value THEN value.num ELSE fallbackValue

(* ------------------------------ state ---------------------------------- *)
VARIABLES
    envSecret,      \* process.env.JWT_SECRET
    secret,         \* jwtService.secret
    now,            \* the clock, seconds
    db,             \* the document store: collection name -> documents
    g,              \* the guard invocations: id -> request/connection context and locals
    objectIdIndex,  \* the driver's counter behind generated identifiers
    ops,            \* the number of data-access calls started so far
    fetch,          \* the _getAll invocation in flight, or the last one finished
    call,           \* the last single-step data-access call and its outcome
    removed,        \* identifiers a deleteOne removed and no createOne stored since
    customErrorMessages, \* the message table of the server module
    made,           \* the last error constructed, with what it was constructed from
    jwt             \* the last token signed by a JwtService and its last verification
vars == <<envSecret, secret, now, db, g, objectIdIndex, ops, fetch, call, removed,
          customErrorMessages, made, jwt>>

(* ------------------------------ errors --------------------------------- *)
\* a renderer is the text it returns, as a sequence of pieces; Hole stands
\* for the payload it is called with.  A text without pieces is falsy: it
\* is undefined (no renderer was called) or ''
Hole == "$"
\* renderer(payload)
Render(renderer, payload) ==
    [i \in 1..Len(renderer) |-> IF renderer[i] = Hole THEN payload ELSE renderer[i]]
\* the default message table: an 'en' renderer for every kind
errorMessages ==
    [invalidObjectId |-> [en |-> <<"Invalid Object ID", Hole>>],
     documentNotExit |-> [en |-> <<"No document found with provided filter">>],
     documentAlreadyExist |-> [en |-> <<"document already exist">>],
     urlNotExist |-> [en |-> <<"Url ", Hole, " already exist">>],
     notLoggedIn |-> [en |-> <<"Please login the website">>],
     userNoLongerExist |-> [en |-> <<"User with id ", Hole, " no longer exist">>],
     permissionDenied |-> [en |-> <<"Permission Denied">>],
     tokenExpired |-> [en |-> <<"Permission Denied">>],
     invalidToken |-> [en |-> <<"Invalid Token">>],
     invalidCredentials |-> [en |-> <<"Invalid username or password">>]]
\* entry[language]?.(payload): undefined when the entry has no such renderer
Rendering(entry, language, payload) ==
    IF language \in DOMAIN entry THEN Render(entry[language], payload) ELSE <<>>
\* (language && errorMessages.kind[language]?.(payload)) ||
\*     errorMessages.kind['en']?.(payload)
\* on the current table; an undeclared language is Unset
Message(kind, payload, language) ==
    LET entry == customErrorMessages[kind]
        own == IF language \in {Unset, ""} THEN <<>> ELSE Rendering(entry, language, payload)
    IN IF own # <<>> THEN own ELSE Rendering(entry, "en", payload)
TypeErrorUndefined == [name |-> "TypeError", message |-> <<"Cannot read properties of undefined">>]
\* what `new` of a localized class gives: the error, or the TypeError thrown
\* while reading a renderer of a kind whose entry is undefined
New(kind, error) == IF customErrorMessages[kind] = Undefined THEN TypeErrorUndefined ELSE error

DevelopmentError(message) ==
    [name |-> "DevelopmentError", statusCode |-> 500, message |-> <<message>>]
\* a conflict error that drops its payload
DocumentAlreadyExistError_NoPayload(payload, language) ==
    New("documentAlreadyExist",
        [name |-> "DocumentAlreadyExist", statusCode |-> 409,
         message |-> Message("documentAlreadyExist", payload, language)])
DocumentAlreadyExistError(payload, language) ==
    New("documentAlreadyExist",
        [name |-> "DocumentAlreadyExist", statusCode |-> 409,
         message |-> Message("documentAlreadyExist", payload, language), duplicated |-> payload])
DocumentNotExistError(payload, language) ==
    New("documentNotExit",
        [name |-> "DocumentNotExist", statusCode |-> 404,
         message |-> Message("documentNotExit", payload, language), filter |-> payload])
InvalidIdError(payload, language) ==
    New("invalidObjectId",
        [name |-> "InvalidId", statusCode |-> 400,
         message |-> Message("invalidObjectId", payload, language)])
UrlNotExistError(url, language) ==
    New("urlNotExist",
        [name |-> "UrlNotExist", statusCode |-> 404, message |-> Message("urlNotExist", url, language)])
TokenExpiredError(expiredAt, language) ==
    New("tokenExpired",
        [name |-> "TokenExpired", statusCode |-> 401,
         message |-> Message("tokenExpired", expiredAt, language), expiredAt |-> expiredAt])
NotLoggedInError(language) ==
    New("notLoggedIn",
        [name |-> "NotLoggedIn", statusCode |-> 401,
         message |-> Message("notLoggedIn", Undefined, language)])
InvalidCredentialsError(language) ==
    New("invalidCredentials",
        [name |-> "InvalidCredentials", statusCode |-> 401,
         message |-> Message("invalidCredentials", Undefined, language)])
UserNoLongerExistsError(userId, language) ==
    New("userNoLongerExist",
        [name |-> "UserNoLongerExists", statusCode |-> 404,
         message |-> Message("userNoLongerExist", userId, language)])
PermissionDeniedError(url, language) ==
    New("permissionDenied",
        [name |-> "PermissionDenied", statusCode |-> 403,
         message |-> Message("permissionDenied", url, language), url |-> url])
InvalidTokenError(language) ==
    New("invalidToken",
        [name |-> "InvalidToken", statusCode |-> 401,
         message |-> Message("invalidToken", Undefined, language)])
\* new Error(message)
Error(message) == [name |-> "Error", message |-> <<message>>]
\* the driver's failure for a second document with an _id already stored
DuplicateKeyError(key) ==
    [name |-> "MongoServerError", code |-> 11000, message |-> <<"E11000 duplicate key error">>,
     keyValue |-> key]

(* --------------------------- identifiers ------------------------------- *)
\* raw strings the store's ObjectId.isValid accepts / rejects
ValidRawIds == {"a1", "a2"}
InvalidRawIds == {"zz"}
\* an identifier the driver generates: a timestamp and the next counter value
GeneratedId(time, index) == [oid |-> "generated", time |-> time, inc |-> index]
\* ObjectId.isValid: a native identifier, a well-formed string, or any number
ObjectIdIsValid(v) ==
    \/ "oid" \in DOMAIN v
    \/ "str" \in DOMAIN v /\ v.str \in ValidRawIds
    \/ "num" \in DOMAIN v
\* new ObjectId(v): a copy of a native identifier, the identifier a string
\* spells, or for a number a generated identifier with that timestamp
NewObjectId(v) ==
    IF "oid" \in DOMAIN v THEN v
    ELSE IF "num" \in DOMAIN v THEN GeneratedId(v.num, objectIdIndex)
    ELSE ObjectId(v.str)
\* whether new ObjectId(v) draws on the counter
Generates(v) == "num" \in DOMAIN v
\* id() without the validity test
id_NoCheck(v) == [ok |-> TRUE, value |-> NewObjectId(v)]
\* id(): [ok, value] or [ok = FALSE, error]
id(v) ==
    IF ObjectIdIsValid(v)
    THEN [ok |-> TRUE, value |-> NewObjectId(v)]
    ELSE [ok |-> FALSE, error |-> InvalidIdError(v, Unset)]

(* ---------------------------- token service ---------------------------- *)
DefaultSecret == "change this secret"
ServiceDefaultSecret == "secret"
MsPerSecond == 1000
\* values of process.env.JWT_SECRET
EnvSecrets == {Unset, "s1"}
\* keys a presented token may have been signed with
SigKeys == {"s1", DefaultSecret, ServiceDefaultSecret, "k9"}
\* new JwtService(secret, ..).secret
JwtServiceSecret(secretArg) == toStr(secretArg, ServiceDefaultSecret)
\* the module-level secret of the guard
GuardSecret(env) == JwtServiceSecret(toStr(env, DefaultSecret))

\* the class hierarchy of the verifier's errors (instanceof)
SuperClasses(class) ==
    CASE class = "TokenExpiredError" -> {"TokenExpiredError", "JsonWebTokenError", "Error"}
      [] class = "NotBeforeError" -> {"NotBeforeError", "JsonWebTokenError", "Error"}
      [] class = "JsonWebTokenError" -> {"JsonWebTokenError", "Error"}
      [] OTHER -> {"Error"}
InstanceOf(error, class) == class \in SuperClasses(error.class)

IsJwt(token) == Len(token) = 1 /\ "sig" \in DOMAIN token[1]

\* jwtService.verifyToken(token) at clock time t (seconds): the payload or
\* the verifier's error.  The verifier checks format, that it was given a
\* key, signature, not-before and expiry, in that order.
verifyToken(key, t, token) ==
    IF ~IsJwt(token)
    THEN [ok |-> FALSE, error |-> [class |-> "JsonWebTokenError", message |-> "jwt malformed"]]
    ELSE LET payload == token[1].payload IN
      IF key = ""
      THEN [ok |-> FALSE, error |-> [class |-> "JsonWebTokenError",
                                    message |-> "secret or public key must be provided"]]
      ELSE IF token[1].sig # key
      THEN [ok |-> FALSE, error |-> [class |-> "JsonWebTokenError", message |-> "invalid signature"]]
      ELSE IF "nbf" \in DOMAIN payload /\ payload.nbf > t
      THEN [ok |-> FALSE, error |-> [class |-> "NotBeforeError", message |-> "jwt not active",
                                    date |-> payload.nbf * MsPerSecond]]
      ELSE IF "exp" \in DOMAIN payload /\ t >= payload.exp
      THEN [ok |-> FALSE, error |-> [class |-> "TokenExpiredError", message |-> "jwt expired",
                                    expiredAt |-> payload.exp * MsPerSecond]]
      ELSE [ok |-> TRUE, value |-> payload]

\* new JwtService(secret, tokenExpirationInSeconds)
DefaultExpiration == 3600
JwtService(secretArg, expirationArg) ==
    [secret |-> toStr(secretArg, ServiceDefaultSecret),
     tokenExpirationInSeconds |-> toInt(expirationArg, DefaultExpiration)]
\* JSON.stringify of an identifier in the payload and JSON.parse back: a
\* native identifier becomes the string that spells it
JsonValue(v) == IF "oid" \in DOMAIN v /\ DOMAIN v = {"oid"} THEN Str(v.oid) ELSE v
\* service.signToken(id) at clock time t: jwt.sign({ id }, secret || 'secret',
\* { expiresIn }) puts iat and exp = iat + expiresIn in the payload
signToken(service, v, t) ==
    << [sig |-> IF service.secret = "" THEN ServiceDefaultSecret ELSE service.secret,
        payload |-> [id |-> JsonValue(v), iat |-> t,
                     exp |-> t + service.tokenExpirationInSeconds]] >>

(* ----------------------------- the store ------------------------------- *)
\* a filter matches a document that has every field of the filter
Matches(doc, filter) == \A f \in DOMAIN filter : f \in DOMAIN doc /\ doc[f] = filter[f]
\* db.collection(table).findOne(filter): the first match, or null
findOne(coll, filter) ==
    LET hits == {i \in 1..Len(coll) : Matches(coll[i], filter)} IN
    IF hits = {} THEN Null ELSE coll[CHOOSE i \in hits : \A j \in hits : i <= j]

\* collection.find(filter).toArray(): the matches in natural order
find(coll, filter) == LET hit(doc) == Matches(doc, filter) IN SelectSeq(coll, hit)
\* cursor.sort(sort): a is placed before b; a document without the field sorts
\* as the lowest value; an empty sort keeps the natural order
SortsBefore(a, b, sort) ==
    /\ DOMAIN sort # {}
    /\ LET f == CHOOSE k \in DOMAIN sort : TRUE
           ka == IF f \in DOMAIN a THEN a[f] ELSE 0
           kb == IF f \in DOMAIN b THEN b[f] ELSE 0
       IN IF sort[f] = 1 THEN ka < kb ELSE ka > kb
RECURSIVE InsertSorted(_, _, _)
InsertSorted(doc, docs, sort) ==
    IF docs = <<>> THEN <<doc>>
    ELSE IF SortsBefore(doc, Head(docs), sort) THEN <<doc>> \o docs
    ELSE <<Head(docs)>> \o InsertSorted(doc, Tail(docs), sort)
RECURSIVE sortDocs(_, _)
sortDocs(docs, sort) ==
    IF docs = <<>> THEN <<>>
    ELSE InsertSorted(docs[Len(docs)], sortDocs(SubSeq(docs, 1, Len(docs) - 1), sort), sort)
\* cursor.skip(k), cursor.limit(k)
skip(docs, k) == SubSeq(docs, k + 1, Len(docs))
limit(docs, k) == SubSeq(docs, 1, IF k < Len(docs) THEN k ELSE Len(docs))
\* collection.countDocuments(filter)
countDocuments(coll, filter) == Len(find(coll, filter))
\* insertOne that leaves the object it was handed as it was
insertOne_ServerId(coll, doc, t) ==
    LET withId == IF "_id" \in DOMAIN doc THEN doc
                  ELSE [f \in DOMAIN doc \cup {"_id"} |->
                          IF f = "_id" THEN GeneratedId(t, objectIdIndex) ELSE doc[f]]
    IN IF \E i \in 1..Len(coll) : coll[i]._id = withId._id
       THEN [ok |-> FALSE, error |-> DuplicateKeyError(withId._id), coll |-> coll, doc |-> doc]
       ELSE [ok |-> TRUE, coll |-> Append(coll, withId), doc |-> doc]
\* collection.insertOne(doc): the driver gives a document without _id a
\* generated one, on the object it was handed; _id is unique in a collection
insertOne(coll, doc, t) ==
    LET withId == IF "_id" \in DOMAIN doc THEN doc
                  ELSE [f \in DOMAIN doc \cup {"_id"} |->
                          IF f = "_id" THEN GeneratedId(t, objectIdIndex) ELSE doc[f]]
    IN IF \E i \in 1..Len(coll) : coll[i]._id = withId._id
       THEN [ok |-> FALSE, error |-> DuplicateKeyError(withId._id), coll |-> coll, doc |-> withId]
       ELSE [ok |-> TRUE, coll |-> Append(coll, withId), doc |-> withId]
\* an update document { $set: fields } applied to a document
applyUpdate(doc, update) ==
    [f \in DOMAIN doc \cup DOMAIN update.set |->
        IF f \in DOMAIN update.set THEN update.set[f] ELSE doc[f]]
\* collection.findOneAndUpdate(filter, update, {returnDocument}): the first
\* match is updated in place; the value is that document before or after
findOneAndUpdate_Upsert(coll, filter, update, returnDocument) ==
    LET hits == {i \in 1..Len(coll) : Matches(coll[i], filter)} IN
    IF hits = {}
    THEN [value |-> applyUpdate(filter, update),
          coll |-> Append(coll, applyUpdate(filter, update))]
    ELSE LET i == CHOOSE k \in hits : \A j \in hits : k <= j
             after == applyUpdate(coll[i], update)
         IN [value |-> IF returnDocument = "after" THEN after ELSE coll[i],
             coll |-> [coll EXCEPT ![i] = after]]
findOneAndUpdate(coll, filter, update, returnDocument) ==
    LET hits == {i \in 1..Len(coll) : Matches(coll[i], filter)} IN
    IF hits = {} THEN [value |-> Null, coll |-> coll]
    ELSE LET i == CHOOSE k \in hits : \A j \in hits : k <= j
             after == applyUpdate(coll[i], update)
         IN [value |-> IF returnDocument = "after" THEN after ELSE coll[i],
             coll |-> [coll EXCEPT ![i] = after]]
\* deleteMany in place of deleteOne
deleteOne_Many(coll, filter) ==
    LET used == IF filter = Undefined THEN <<>> ELSE filter
        miss(doc) == ~Matches(doc, used) IN
    [deletedCount |-> Len(coll) - Len(SelectSeq(coll, miss)), coll |-> SelectSeq(coll, miss)]
\* collection.deleteOne(filter): removes the first match; an undefined filter
\* is the driver's default {}
deleteOne(coll, filter) ==
    LET used == IF filter = Undefined THEN <<>> ELSE filter
        hits == {i \in 1..Len(coll) : Matches(coll[i], used)} IN
    IF hits = {} THEN [deletedCount |-> 0, coll |-> coll]
    ELSE LET i == CHOOSE k \in hits : \A j \in hits : k <= j
         IN [deletedCount |-> 1, coll |-> SubSeq(coll, 1, i - 1) \o SubSeq(coll, i + 1, Len(coll))]

(* ---------------------------- data access ------------------------------ *)
\* a store call as the driver receives it
StoreCall(method, table, filter) == [method |-> method, table |-> table, filter |-> filter]
\* options?.filter || {}
FilterOrEmpty(options) == IF "filter" \in DOMAIN options THEN options.filter ELSE <<>>
\* options?.filter
FilterOrUndefined(options) == IF "filter" \in DOMAIN options THEN options.filter ELSE Undefined

\* if (options?.filter && options.filter._id) options.filter._id = id(..):
\* the options with the coerced filter, or the coercion failure
coerceFilterId(options) ==
    IF "filter" \in DOMAIN options /\ "_id" \in DOMAIN options.filter
                                   /\ ~Falsy(options.filter._id)
    THEN IF id(options.filter._id).ok
         THEN [ok |-> TRUE, value |-> [options EXCEPT !.filter._id = id(@).value],
               generated |-> IF Generates(options.filter._id) THEN 1 ELSE 0]
         ELSE [ok |-> FALSE, error |-> id(options.filter._id).error]
    ELSE [ok |-> TRUE, value |-> options, generated |-> 0]

\* options?.lookup && lookup.foreign_collection && lookup.foreign_field && lookup.local_field
LookupConfigured(options) ==
    /\ "lookup" \in DOMAIN options
    /\ {"foreign_collection", "foreign_field", "local_field"} \subseteq DOMAIN options.lookup
\* as || local_field
AsField(lk) == IF "as" \in DOMAIN lk THEN lk.as ELSE lk.local_field
\* the filter { [foreign_field]: doc[local_field] } of the join
ForeignFilter(lk, doc) ==
    [f \in {lk.foreign_field} |->
        IF lk.local_field \in DOMAIN doc THEN doc[lk.local_field] ELSE Null]
\* the join that leaves the field out when there is no foreign document
Enrich_OmitMissing(store, lk, doc) ==
    IF findOne(store[lk.foreign_collection], ForeignFilter(lk, doc)) = Null THEN doc
    ELSE [f \in DOMAIN doc \cup {AsField(lk)} |->
            IF f = AsField(lk) THEN findOne(store[lk.foreign_collection], ForeignFilter(lk, doc))
            ELSE doc[f]]
\* doc[asField] = foreignResult || null
Enrich(store, lk, doc) ==
    [f \in DOMAIN doc \cup {AsField(lk)} |->
        IF f = AsField(lk) THEN findOne(store[lk.foreign_collection], ForeignFilter(lk, doc))
        ELSE doc[f]]

\* _getOne with the join attempted whether or not a document was found
_getOne_JoinAlways(table, store, options, t) ==
    LET c == coerceFilterId(options) IN
    IF ~c.ok
    THEN [ok |-> FALSE, error |-> c.error, store |-> store, calls |-> <<>>, generated |-> 0]
    ELSE
      LET filter == FilterOrEmpty(c.value)
          found == findOne(store[table], filter)
          joins == LookupConfigured(options)
          joined == IF joins THEN Enrich(store, options.lookup, found) ELSE found
      IN [ok |-> TRUE,
          value |-> [status |-> "success", data |-> joined, table |-> table,
                     response_created_at |-> t * MsPerSecond],
          store |-> store,
          calls |-> <<StoreCall("findOne", table, filter)>> \o
                    (IF joins
                     THEN <<StoreCall("findOne", options.lookup.foreign_collection,
                                      ForeignFilter(options.lookup, found))>>
                     ELSE <<>>),
          generated |-> c.generated]
\* _getOne(table, db, options) at clock time t: [ok, value = envelope], or the
\* identifier-coercion failure; calls are the store calls issued
_getOne(table, store, options, t) ==
    LET c == coerceFilterId(options) IN
    IF ~c.ok
    THEN [ok |-> FALSE, error |-> c.error, store |-> store, calls |-> <<>>, generated |-> 0]
    ELSE
      LET filter == FilterOrEmpty(c.value)
          found == findOne(store[table], filter)
          joins == found # Null /\ LookupConfigured(options)
          joined == IF joins THEN Enrich(store, options.lookup, found) ELSE found
      IN [ok |-> TRUE,
          value |-> [status |-> "success", data |-> joined, table |-> table,
                     response_created_at |-> t * MsPerSecond],
          store |-> store,
          calls |-> <<StoreCall("findOne", table, filter)>> \o
                    (IF joins
                     THEN <<StoreCall("findOne", options.lookup.foreign_collection,
                                      ForeignFilter(options.lookup, found))>>
                     ELSE <<>>),
          generated |-> c.generated]

\* _getAll up to the await of its find: coercion and the page of matches.
\* docs is what the find returned, results the array handed on; with a
\* lookup every document's foreign findOne is issued and still pending
DefaultPage == 1
DefaultLimit == 20
_getAllFind(table, store, options) ==
    LET pageNo == IF "page" \in DOMAIN options /\ options.page # 0
                  THEN options.page ELSE DefaultPage
        perPage == IF "limit" \in DOMAIN options /\ options.limit # 0
                   THEN options.limit ELSE DefaultLimit
        sort == IF "sort" \in DOMAIN options THEN options.sort ELSE <<>>
        c == coerceFilterId(options)
    IN IF ~c.ok
       THEN [ok |-> FALSE, error |-> c.error, calls |-> <<>>, generated |-> 0]
       ELSE
         LET filter == FilterOrEmpty(c.value)
             results == limit(skip(sortDocs(find(store[table], filter), sort),
                                   (pageNo - 1) * perPage), perPage)
             joins == LookupConfigured(options)
         IN [ok |-> TRUE, options |-> c.value, page |-> pageNo, limit |-> perPage,
             docs |-> results,
             results |-> results,
             pending |-> IF joins THEN 1..Len(results) ELSE {},
             order |-> <<>>,
             calls |-> <<StoreCall("find", table, filter)>> \o
                       (IF joins
                        THEN [i \in 1..Len(results) |->
                                StoreCall("findOne", options.lookup.foreign_collection,
                                          ForeignFilter(options.lookup, results[i]))]
                        ELSE <<>>),
             generated |-> c.generated]
\* an array filled in the order the lookups complete
Slot_Arrival(i, k) == k
\* Promise.all(results.map(..)): the value of the i-th promise is element i
\* of the array, whichever promise settles k-th
Slot(i, k) == i
\* the foreign findOne of document i settles: the document gets its joined
\* field and takes its place in the array
_getAllLookup(store, found, lk, i) ==
    [found EXCEPT
        !.results[Slot(i, Len(found.order) + 1)] = Enrich(store, lk, found.docs[i]),
        !.pending = @ \ {i},
        !.order = Append(@, i)]
\* Math.floor in place of Math.ceil
CeilDiv_Floor(count, perPage) == count \div perPage
\* Math.ceil(count / limit)
CeilDiv(count, perPage) == (count + perPage - 1) \div perPage
\* _getAll from the count to the envelope; found is what _getAllFind and the
\* lookups left
_getAllCount(table, store, found, t) ==
    LET filter == FilterOrEmpty(found.options)
        count == countDocuments(store[table], filter)
    IN [ok |-> TRUE,
        value |-> [status |-> "success", data |-> found.results, table |-> table,
                   totalDocs |-> count, totalPages |-> CeilDiv(count, found.limit),
                   currentPage |-> found.page, limit |-> found.limit,
                   response_created_at |-> t * MsPerSecond],
        calls |-> <<StoreCall("countDocuments", table, filter)>>]

\* _createOne(table, db, createObject, options)
_createOne(table, store, createObject, options, t) ==
    LET result == insertOne(store[table], createObject, t)
        generated == IF "_id" \in DOMAIN createObject THEN 0 ELSE 1
        calls == <<StoreCall("insertOne", table, result.doc)>>
    IN IF ~result.ok
       THEN [ok |-> FALSE, error |-> result.error, store |-> store, calls |-> calls,
             generated |-> generated]
       ELSE [ok |-> TRUE,
             value |-> [status |-> "success", data |-> result.doc, table |-> table,
                        response_created_at |-> t * MsPerSecond],
             store |-> [store EXCEPT ![table] = result.coll], calls |-> calls,
             generated |-> generated]

\* returnNew taken by its truthiness
ReturnsNew_Truthy(options) == "returnNew" \in DOMAIN options /\ ~Falsy(options.returnNew)
\* returnDocument: options?.returnNew === true ? 'after' : 'before'
ReturnsNew(options) == "returnNew" \in DOMAIN options /\ options.returnNew = Bool(TRUE)
\* _updateOne(table, db, updateObject, options)
_updateOne(table, store, updateObject, options, t) ==
    LET c == coerceFilterId(options) IN
    IF ~c.ok
    THEN [ok |-> FALSE, error |-> c.error, store |-> store, calls |-> <<>>, generated |-> 0]
    ELSE
      LET filter == FilterOrEmpty(c.value)
          result == findOneAndUpdate(store[table], filter, updateObject,
                                     IF ReturnsNew(options) THEN "after" ELSE "before")
          calls == <<StoreCall("findOneAndUpdate", table, filter)>>
      IN IF result.value = Null
         THEN [ok |-> FALSE, error |-> DocumentNotExistError(FilterOrUndefined(c.value), Unset),
               store |-> store, calls |-> calls, generated |-> c.generated]
         ELSE [ok |-> TRUE,
               value |-> [status |-> "success", data |-> result.value, table |-> table,
                          returnedNew |-> ReturnsNew(options),
                          response_created_at |-> t * MsPerSecond],
               store |-> [store EXCEPT ![table] = result.coll], calls |-> calls,
               generated |-> c.generated]

\* _deleteOne(table, db, options)
_deleteOne(table, store, options, t) ==
    LET c == coerceFilterId(options) IN
    IF ~c.ok
    THEN [ok |-> FALSE, error |-> c.error, store |-> store, calls |-> <<>>, generated |-> 0]
    ELSE
      LET filter == FilterOrUndefined(c.value)
          result == deleteOne(store[table], filter)
          calls == <<StoreCall("deleteOne", table, filter)>>
      IN IF result.deletedCount = 0
         THEN [ok |-> FALSE, error |-> DocumentNotExistError(filter, Unset),
               store |-> store, calls |-> calls, generated |-> c.generated]
         ELSE [ok |-> TRUE,
               value |-> [status |-> "success", table |-> table,
                          response_created_at |-> t * MsPerSecond],
               store |-> [store EXCEPT ![table] = result.coll], calls |-> calls,
               generated |-> c.generated]

(* ------------------------- guard: input sets --------------------------- *)
IdOpts == {{}} \cup {{Str(x)} : x \in ValidRawIds \cup InvalidRawIds}
NbfOpts == {{}, {MaxTime}}
ExpOpts == {{}, {1}}
One(S) == CHOOSE v \in S : TRUE
\* a token payload with optional id, nbf and exp
MkPayload(I, N, X) ==
    [f \in (IF I = {} THEN {} ELSE {"id"}) \cup (IF N = {} THEN {} ELSE {"nbf"})
           \cup (IF X = {} THEN {} ELSE {"exp"}) |->
        IF f = "id" THEN One(I) ELSE IF f = "nbf" THEN One(N) ELSE One(X)]
Payloads == {MkPayload(I, N, X) : I \in IdOpts, N \in NbfOpts, X \in ExpOpts}
JwtWords == [sig : SigKeys, payload : Payloads]
TokenWords == JwtWords \cup {Lit("garbage")}
\* the tokens that travel in the fallback place (cookie, handshake header)
FallbackWords == {[sig |-> "s1", payload |-> MkPayload({Str("a1")}, {}, {})],
                  [sig |-> DefaultSecret, payload |-> MkPayload({Str("a2")}, {}, {})]}

\* req.headers.authorization
ProtectHeaders ==
    {<<>>, <<Bearer>>, <<Bearer, E>>}
      \cup {<<Bearer, w>> : w \in TokenWords}
      \cup {<<Lit("BearerX"), w>> : w \in FallbackWords}
      \cup {<<Lit("Basic"), w>> : w \in FallbackWords}
\* req.cookies: undefined (no cookie parser), without jwt, with jwt
ProtectCookies ==
    {Undefined, [sid |-> <<Lit("x")>>]} \cup {[jwt |-> <<w>>] : w \in FallbackWords}
\* socket.handshake.auth.token
SocketAuthTokens ==
    {<<>>, <<[object |-> TRUE]>>, <<Bearer>>}
      \cup {<<Bearer, w>> : w \in TokenWords}
      \cup {<<w>> : w \in FallbackWords}
\* socket.handshake.headers.authorization
SocketHeaders ==
    {<<>>} \cup {<<w>> : w \in FallbackWords} \cup {<<Bearer, w>> : w \in FallbackWords}

RoleNames == {"admin", "member"}
AllowLists == SUBSET {"*", "admin"}
Urls == {"/users", "/admin"}

\* the users collection: a2 is a member, a1 is absent or has one of the roles
UserDocs(x) == {[_id |-> ObjectId(x)]} \cup {[_id |-> ObjectId(x), role |-> r] : r \in RoleNames}
Stores == {[users |-> <<[_id |-> ObjectId("a2"), role |-> "member"]>>]}
            \cup {[users |-> <<d, [_id |-> ObjectId("a2"), role |-> "member"]>>] : d \in UserDocs("a1")}

(* ------------------------- guard: invocations -------------------------- *)
\* a guard invocation that has not started
NewCall(variant, hasDb, roles, url, authorization, cookies, authToken) ==
    [variant |-> variant, hasDb |-> hasDb, roles |-> roles, url |-> url,
     authorization |-> authorization, cookies |-> cookies, authToken |-> authToken,
     pc |-> "start", token |-> <<>>, decoded |-> Undefined, filter |-> Undefined,
     user |-> Undefined, nextCalls |-> <<>>, rejected |-> Undefined,
     language |-> Unset, verifyCalls |-> 0, storeReads |-> 0]

ProtectCalls ==
    {NewCall(v, d, r, u, h, c, <<>>) :
        v \in {"protect", "protect2"}, d \in BOOLEAN, r \in AllowLists, u \in Urls,
        h \in ProtectHeaders, c \in ProtectCookies}
SocketCalls ==
    {NewCall("socketProtect", d, r, "socket", h, Undefined, a) :
        d \in BOOLEAN, r \in AllowLists, h \in SocketHeaders, a \in SocketAuthTokens}

InitEnv ==
    /\ envSecret \in EnvSecrets
    /\ secret = GuardSecret(envSecret)
    /\ now \in 0..MaxTime
    /\ db \in Stores
    /\ objectIdIndex = 0 /\ ops = 0
    /\ fetch = [pc |-> "idle"] /\ call = [pc |-> "idle"]
    /\ removed = {}
    /\ customErrorMessages = errorMessages
    /\ made = [pc |-> "idle"] /\ jwt = [pc |-> "idle"]

Init ==
    /\ InitEnv
    /\ \E q \in ProtectCalls \cup SocketCalls : g = <<q>>

(* ------------------------ guard: shared pieces ------------------------- *)
\* next(arg) ends the invocation; next() is next(Undefined)
CallNext(q, arg) == [q EXCEPT !.nextCalls = Append(@, arg), !.pc = "done"]
\* catchErrors: a failure thrown by the wrapped handler is passed to next
catchErrors(q, error) == CallNext(q, error)
\* a throw inside the async socket middleware rejects its promise
Reject(q, error) == [q EXCEPT !.rejected = error, !.pc = "done"]

\* protect: token from the header, else from the jwt cookie
ExtractProtect(authorization, cookies) ==
    IF Truthy(authorization) /\ StartsWithBearer(authorization)
    THEN [ok |-> TRUE, value |-> SplitAt1(authorization)]
    ELSE IF cookies # Undefined /\ "jwt" \in DOMAIN cookies /\ Truthy(cookies.jwt)
    THEN [ok |-> TRUE, value |-> cookies.jwt]
    ELSE [ok |-> TRUE, value |-> <<>>]

\* protect (second definition): req.cookies is read without a guard
ExtractProtect2(authorization, cookies) ==
    IF Truthy(authorization) /\ StartsWithBearer(authorization)
    THEN [ok |-> TRUE, value |-> SplitAt1(authorization)]
    ELSE IF cookies = Undefined
    THEN [ok |-> FALSE, error |-> TypeErrorUndefined]
    ELSE IF "jwt" \in DOMAIN cookies /\ Truthy(cookies.jwt)
    THEN [ok |-> TRUE, value |-> cookies.jwt]
    ELSE [ok |-> TRUE, value |-> <<>>]

\* socketProtect: token from handshake.auth.token, else the handshake's
\* authorization header as it is
ExtractSocket(authToken, authorization) ==
    IF Truthy(authToken) /\ TypeofString(authToken) /\ StartsWithBearer(authToken)
    THEN SplitAt1(authToken)
    ELSE IF Truthy(authorization)
    THEN authorization
    ELSE <<>>

\* the catch block after verifyToken: the guard's failure for a verifier error
MapVerifyError(error, language) ==
    IF InstanceOf(error, "TokenExpiredError")
    THEN [mapped |-> TRUE, error |-> TokenExpiredError(error.expiredAt, language)]
    ELSE IF InstanceOf(error, "JsonWebTokenError")
    THEN [mapped |-> TRUE, error |-> InvalidTokenError(language)]
    ELSE IF InstanceOf(error, "NotBeforeError")
    THEN [mapped |-> TRUE, error |-> TokenExpiredError(error.date, language)]
    ELSE [mapped |-> FALSE, error |-> error]

\* !decoded || !decoded.id
NoSubject(decoded) == ~("id" \in DOMAIN decoded) \/ decoded.id = Str("")

\* the role test without the wildcard
RoleDenied_NoWildcard(roles, user) == ~(Field(user, "role") \in roles)

\* !roles.includes('*') && !roles.includes(user.role)
RoleDenied(roles, user) == ~("*" \in roles) /\ ~(Field(user, "role") \in roles)

(* --------------------------- guard: protect ---------------------------- *)
\* protectBegin with the db check after the token check
protectBegin_DbCheckLate(q) ==
    LET token == ExtractProtect(q.authorization, q.cookies).value IN
    IF ~Truthy(token)
    THEN catchErrors(q, NotLoggedInError(q.language))
    ELSE IF ~q.hasDb
    THEN catchErrors(q, DevelopmentError("Please assign a database to the request"))
    ELSE [q EXCEPT !.token = token, !.verifyCalls = @ + 1, !.pc = "verify"]

\* db check, extract, token check; then awaits verifyToken
protectBegin(q) ==
    IF ~q.hasDb
    THEN catchErrors(q, DevelopmentError("Please assign a database to the request"))
    ELSE LET token == ExtractProtect(q.authorization, q.cookies).value IN
      IF ~Truthy(token)
      THEN catchErrors(q, NotLoggedInError(q.language))
      ELSE [q EXCEPT !.token = token, !.verifyCalls = @ + 1, !.pc = "verify"]

\* protectVerified with the user looked up before the payload is checked
protectVerified_ReadFirst(q) ==
    LET v == verifyToken(secret, now, q.token) IN
    IF ~v.ok
    THEN catchErrors(q, MapVerifyError(v.error, q.language).error)
    ELSE IF NoSubject(v.value)
    THEN catchErrors([q EXCEPT !.decoded = v.value, !.storeReads = @ + 1], InvalidTokenError(q.language))
    ELSE IF ~id(v.value.id).ok
    THEN catchErrors([q EXCEPT !.decoded = v.value], id(v.value.id).error)
    ELSE [q EXCEPT !.decoded = v.value, !.filter = [_id |-> id(v.value.id).value],
                   !.storeReads = @ + 1, !.pc = "load"]

\* verifyToken settles; payload check; identifier coercion; then awaits _getOne
protectVerified(q) ==
    LET v == verifyToken(secret, now, q.token) IN
    IF ~v.ok
    THEN catchErrors(q, MapVerifyError(v.error, q.language).error)
    ELSE IF NoSubject(v.value)
    THEN catchErrors([q EXCEPT !.decoded = v.value], InvalidTokenError(q.language))
    ELSE IF ~id(v.value.id).ok
    THEN catchErrors([q EXCEPT !.decoded = v.value], id(v.value.id).error)
    ELSE [q EXCEPT !.decoded = v.value, !.filter = [_id |-> id(v.value.id).value],
                   !.storeReads = @ + 1, !.pc = "load"]

\* protectLoaded with the filter kept in a variable of the module, which the
\* first request to reach the lookup has set
protectLoaded_SharedFilter(q) ==
    LET shared == IF g[1].filter # Undefined THEN g[1].filter ELSE q.filter
        currentUser == _getOne("users", db, [filter |-> shared], now).value
    IN IF currentUser.data = Null
       THEN catchErrors(q, UserNoLongerExistsError(q.decoded.id, q.language))
       ELSE LET attached == [q EXCEPT !.user = currentUser.data] IN
         IF RoleDenied(q.roles, attached.user)
         THEN catchErrors(attached, PermissionDeniedError(q.url, q.language))
         ELSE CallNext(attached, Undefined)

\* _getOne settles; user check; attach; authorize; next
protectLoaded(q) ==
    LET currentUser == _getOne("users", db, [filter |-> q.filter], now).value IN
    IF currentUser.data = Null
    THEN catchErrors(q, UserNoLongerExistsError(q.decoded.id, q.language))
    ELSE LET attached == [q EXCEPT !.user = currentUser.data] IN
      IF RoleDenied(q.roles, attached.user)
      THEN catchErrors(attached, PermissionDeniedError(q.url, q.language))
      ELSE CallNext(attached, Undefined)

(* -------------------- guard: protect, second definition ---------------- *)
protect2Begin(q) ==
    IF ~q.hasDb
    THEN catchErrors(q, DevelopmentError("Please assign a database to the request"))
    ELSE LET x == ExtractProtect2(q.authorization, q.cookies) IN
      IF ~x.ok
      THEN catchErrors(q, x.error)
      ELSE IF ~Truthy(x.value)
      THEN catchErrors(q, NotLoggedInError(q.language))
      ELSE [q EXCEPT !.token = x.value, !.verifyCalls = @ + 1, !.pc = "verify"]

protect2Verified(q) ==
    LET v == verifyToken(secret, now, q.token) IN
    IF ~v.ok
    THEN catchErrors(q, MapVerifyError(v.error, q.language).error)
    ELSE IF NoSubject(v.value)
    THEN catchErrors([q EXCEPT !.decoded = v.value], InvalidTokenError(q.language))
    ELSE IF ~id(v.value.id).ok
    THEN catchErrors([q EXCEPT !.decoded = v.value], id(v.value.id).error)
    ELSE [q EXCEPT !.decoded = v.value, !.filter = [_id |-> id(v.value.id).value],
                   !.storeReads = @ + 1, !.pc = "load"]

\* the envelope itself, never falsy, is tested and attached
protect2Loaded(q) ==
    LET currentUser == _getOne("users", db, [filter |-> q.filter], now).value IN
    IF currentUser = Null
    THEN catchErrors(q, UserNoLongerExistsError(q.decoded.id, q.language))
    ELSE LET attached == [q EXCEPT !.user = currentUser] IN
      IF RoleDenied(q.roles, attached.user)
      THEN catchErrors(attached, PermissionDeniedError(q.url, q.language))
      ELSE CallNext(attached, Undefined)

(* ------------------------ guard: socketProtect ------------------------- *)
socketProtectBegin(q) ==
    IF ~q.hasDb
    THEN Reject(q, DevelopmentError("Please assign a database to the request"))
    ELSE LET token == ExtractSocket(q.authToken, q.authorization) IN
      IF ~Truthy(token)
      THEN CallNext(q, NotLoggedInError(q.language))
      ELSE [q EXCEPT !.token = token, !.verifyCalls = @ + 1, !.pc = "verify"]

socketProtectVerified(q) ==
    LET v == verifyToken(secret, now, q.token) IN
    IF ~v.ok
    THEN IF MapVerifyError(v.error, q.language).mapped
         THEN CallNext(q, MapVerifyError(v.error, q.language).error)
         ELSE Reject(q, v.error)
    ELSE IF NoSubject(v.value)
    THEN CallNext([q EXCEPT !.decoded = v.value], InvalidTokenError(q.language))
    ELSE IF ~id(v.value.id).ok
    THEN Reject([q EXCEPT !.decoded = v.value], id(v.value.id).error)
    ELSE [q EXCEPT !.decoded = v.value, !.filter = [_id |-> id(v.value.id).value],
                   !.storeReads = @ + 1, !.pc = "load"]

socketProtectLoaded(q) ==
    LET currentUser == _getOne("users", db, [filter |-> q.filter], now).value IN
    IF currentUser.data = Null
    THEN CallNext(q, UserNoLongerExistsError(q.decoded.id, q.language))
    ELSE LET attached == [q EXCEPT !.user = currentUser.data] IN
      IF RoleDenied(q.roles, attached.user)
      THEN CallNext(attached, PermissionDeniedError("socket io", q.language))
      ELSE CallNext(attached, Undefined)

(* ------------------------------ actions -------------------------------- *)
Step(r, q) ==
    /\ g' = [g EXCEPT ![r] = q]
    /\ UNCHANGED <<customErrorMessages, made, jwt, envSecret, secret, now, db, objectIdIndex, ops, fetch, call, removed>>
At(r, variant, pc) == g[r].variant = variant /\ g[r].pc = pc

ProtectBegin ==
    \E r \in DOMAIN g : At(r, "protect", "start") /\ Step(r, protectBegin(g[r]))
ProtectVerified ==
    \E r \in DOMAIN g : At(r, "protect", "verify") /\ Step(r, protectVerified(g[r]))
ProtectLoaded ==
    \E r \in DOMAIN g : At(r, "protect", "load") /\ Step(r, protectLoaded(g[r]))
Protect2Begin ==
    \E r \in DOMAIN g : At(r, "protect2", "start") /\ Step(r, protect2Begin(g[r]))
Protect2Verified ==
    \E r \in DOMAIN g : At(r, "protect2", "verify") /\ Step(r, protect2Verified(g[r]))
Protect2Loaded ==
    \E r \in DOMAIN g : At(r, "protect2", "load") /\ Step(r, protect2Loaded(g[r]))
SocketProtectBegin ==
    \E r \in DOMAIN g : At(r, "socketProtect", "start") /\ Step(r, socketProtectBegin(g[r]))
SocketProtectVerified ==
    \E r \in DOMAIN g : At(r, "socketProtect", "verify") /\ Step(r, socketProtectVerified(g[r]))
SocketProtectLoaded ==
    \E r \in DOMAIN g : At(r, "socketProtect", "load") /\ Step(r, socketProtectLoaded(g[r]))

Next ==
    \/ ProtectBegin \/ ProtectVerified \/ ProtectLoaded
    \/ Protect2Begin \/ Protect2Verified \/ Protect2Loaded
    \/ SocketProtectBegin \/ SocketProtectVerified \/ SocketProtectLoaded

Spec == Init /\ [][Next]_vars

TypeOK ==
    /\ secret \in SigKeys
    /\ now \in 0..MaxTime
    /\ \A r \in DOMAIN g :
        /\ g[r].pc \in {"start", "verify", "load", "done"}
        /\ g[r].verifyCalls \in 0..1
        /\ g[r].storeReads \in 0..1
        /\ Len(g[r].nextCalls) <= 1

(* --------------- protect and socketProtect side by side ---------------- *)
\* one credential, absent or 'Bearer <token>', given to protect in the
\* Authorization header and to socketProtect in one of the handshake's places
PairCredentials == {<<>>} \cup {<<Bearer, w>> : w \in TokenWords}
InitPair ==
    /\ InitEnv
    /\ \E d \in BOOLEAN, r \in AllowLists, u \in Urls, c \in PairCredentials,
          place \in {"auth", "headers"} :
         g = << NewCall("protect", d, r, u, c, [sid |-> <<Lit("x")>>], <<>>),
                NewCall("socketProtect", d, r, "socket",
                        IF place = "headers" THEN c ELSE <<>>, Undefined,
                        IF place = "auth" THEN c ELSE <<>>) >>
PairNext ==
    \/ ProtectBegin \/ ProtectVerified \/ ProtectLoaded
    \/ SocketProtectBegin \/ SocketProtectVerified \/ SocketProtectLoaded
PairSpec == InitPair /\ [][PairNext]_vars

(* ------------------- protect on concurrent requests -------------------- *)
\* the credentials of requests in flight together: absent, or a token for
\* one of the users signed with one of the keys
ConcurrentWords == [sig : {"s1", DefaultSecret}, payload : {MkPayload({Str(x)}, {}, {}) : x \in ValidRawIds}]
ConcurrentCredentials == {<<>>} \cup {<<Bearer, w>> : w \in ConcurrentWords}
\* two requests, each with its own credential and its own allow-list, whose
\* protect invocations run interleaved at their awaits
InitConcurrent ==
    /\ InitEnv
    /\ \E c1 \in ConcurrentCredentials, c2 \in ConcurrentCredentials,
          r1 \in AllowLists, r2 \in AllowLists :
         g = << NewCall("protect", TRUE, r1, "/users", c1, Undefined, <<>>),
                NewCall("protect", TRUE, r2, "/admin", c2, Undefined, <<>>) >>
ConcurrentNext == ProtectBegin \/ ProtectVerified \/ ProtectLoaded
ConcurrentSpec == InitConcurrent /\ [][ConcurrentNext]_vars

(* ----------------------- data access: input sets ----------------------- *)
\* the collection the handlers are bound to, and the collection joined to it
Table == "items"
ItemA1 == [_id |-> ObjectId("a1"), n |-> 2, ref |-> Str("r1")]
ItemA2 == [_id |-> ObjectId("a2"), n |-> 1, ref |-> Str("r9")]
ItemA3 == [_id |-> ObjectId("a3"), n |-> 3]
RefDocs == << [_id |-> ObjectId("f1"), key |-> Str("r1"), ref |-> Str("r1")],
              [_id |-> ObjectId("f2"), key |-> Str("r1")] >>
DataStores ==
    {[items |-> docs, refs |-> RefDocs] :
        docs \in {<<>>, <<ItemA1>>, <<ItemA1, ItemA2>>, <<ItemA1, ItemA3, ItemA2>>}}

\* values a caller puts in filter._id
RawIdValues == {Str("a1"), Str("zz"), Str(""), Num(0), Num(5), ObjectId("a2")}
Filters == {<<>>, [ref |-> Str("r1")]} \cup {[_id |-> v] : v \in RawIdValues}
\* options without a filter, or with one
FilterOpts == {<<>>} \cup {[filter |-> f] : f \in Filters}
Pagings == [page : 1..MaxPage, limit : 1..MaxLimit]
\* a page or a page size left out, or given as 0
HalfPagings == {[page |-> MaxPage], [page |-> 0, limit |-> 1], [limit |-> MaxLimit], [limit |-> 0]}
Sorts == {<<>>, [sort |-> [n |-> -1]], [sort |-> [n |-> 1]]}
Lookups ==
    {[lookup |-> [local_field |-> "ref", foreign_collection |-> "refs", foreign_field |-> "key"]],
     [lookup |-> [local_field |-> "ref", foreign_collection |-> "refs", foreign_field |-> "key",
                  as |-> "owner"]],
     [lookup |-> [local_field |-> "ref", foreign_collection |-> "refs"]]}
GetAllOptions ==
    FilterOpts
      \cup {p @@ [sort |-> [n |-> -1]] : p \in Pagings}
      \cup HalfPagings \cup Sorts
      \cup {[filter |-> [ref |-> Str("r1")], page |-> 2, limit |-> 1, sort |-> [n |-> 1]]}
      \cup {p @@ l : p \in {<<>>, [page |-> 2, limit |-> 1]}, l \in Lookups}
GetOneOptions ==
    FilterOpts
      \cup {f @@ l : f \in {<<>>, [filter |-> [_id |-> ObjectId("a2")]],
                             [filter |-> [_id |-> ObjectId("a3")]],
                             [filter |-> [_id |-> Str("zz")]]},
                     l \in Lookups}
DeleteOneOptions == FilterOpts
ReturnNews == {[returnNew |-> Bool(TRUE)], [returnNew |-> Bool(FALSE)], [returnNew |-> Str("true")]}
UpdateOneOptions ==
    FilterOpts \cup {f @@ r : f \in {<<>>, [filter |-> [_id |-> Str("a1")]]}, r \in ReturnNews}
UpdateObjects == {[set |-> [n |-> 7]]}
CreateObjects == {[n |-> 1, ref |-> Str("r1")], [_id |-> ObjectId("a1"), n |-> 5]}
\* what a request brings to the updateOne handler: db_options, update_object
\* and whether req.db is set
UpdateRequests ==
    {<<o, [set |-> [n |-> 7]], TRUE>> :
        o \in {<<>>, [filter |-> <<>>, returnNew |-> Bool(TRUE)],
               [filter |-> [_id |-> Str("a1")]], [filter |-> [_id |-> Str("zz")]]}}
      \cup {<<[filter |-> [_id |-> Str("a1")]], Undefined, TRUE>>,
            <<[filter |-> [_id |-> Str("a1")]], [set |-> [n |-> 7]], FALSE>>}
\* what a request brings to the createOne handler: create_object and
\* whether req.db is set
CreateRequests ==
    {<<o, TRUE>> : o \in CreateObjects} \cup {<<Undefined, TRUE>>, <<[n |-> 1], FALSE>>}

\* what a request brings to the getAll, getOne and deleteOne handlers:
\* db_options and whether req.db is set
GetAllRequests ==
    {<<<<>>, TRUE>>, <<[page |-> 2, limit |-> 1], TRUE>>, <<[filter |-> [_id |-> Str("zz")]], TRUE>>,
     <<<<>>, FALSE>>}
GetOneRequests ==
    {<<[filter |-> [_id |-> Str("a1")]], TRUE>>, <<[filter |-> [_id |-> Str("zz")]], TRUE>>,
     <<[filter |-> [_id |-> Str("a1")]], FALSE>>}
DeleteOneRequests ==
    {<<[filter |-> [_id |-> Str("a1")]], TRUE>>, <<[filter |-> [_id |-> Str("a2")]], TRUE>>,
     <<[filter |-> [_id |-> Str("a1")]], FALSE>>}

(* ------------------------- data access: calls -------------------------- *)
\* a data-access call that has not started; object is the update or create
\* object, Undefined when there is none
NewDataCall(op, via, hasDb, options, object) ==
    [op |-> op, via |-> via, hasDb |-> hasDb, options |-> options, object |-> object,
     seq |-> ops + 1, pc |-> "start", before |-> db, calls |-> <<>>, generated |-> 0,
     result |-> Undefined, nextCalls |-> <<>>, sent |-> <<>>]
\* the call after the function it awaited has settled with r
Settle(q, r) ==
    [q EXCEPT !.calls = @ \o r.calls, !.pc = "done",
              !.generated = @ + (IF "generated" \in DOMAIN r THEN r.generated ELSE 0),
              !.result = IF r.ok THEN [ok |-> TRUE, value |-> r.value]
                         ELSE [ok |-> FALSE, error |-> r.error]]
\* res.status(status).json(body)
Respond(q, status, body) == [q EXCEPT !.sent = Append(@, [status |-> status, json |-> body])]

\* the updateOne handler on request q: the call it ends as, the store it leaves
updateOne(q, store, t) ==
    IF q.object = Undefined \/ ~("filter" \in DOMAIN q.options) \/ ~q.hasDb
    THEN [q |-> catchErrors(q, Error("Update parameters are not available or are invalid")),
          store |-> store, generated |-> 0]
    ELSE LET r == _updateOne(Table, store, q.object, q.options, t) IN
         [q |-> IF r.ok THEN Respond(Settle(q, r), 200, r.value)
                ELSE catchErrors(Settle(q, r), r.error),
          store |-> r.store, generated |-> r.generated]
\* the createOne handler on request q
createOne(q, store, t) ==
    IF q.object = Undefined \/ ~q.hasDb
    THEN [q |-> catchErrors(q, Error("Create")), store |-> store, generated |-> 0]
    ELSE LET r == _createOne(Table, store, q.object, q.options, t) IN
         [q |-> IF r.ok THEN Respond(Settle(q, r), 201, r.value)
                ELSE catchErrors(Settle(q, r), r.error),
          store |-> r.store, generated |-> r.generated]

\* the handler returned without calling the function
Return(q) == [q EXCEPT !.pc = "done"]
\* the getOne handler on request q
getOne(q, store, t) ==
    IF ~q.hasDb
    THEN [q |-> Return(q), store |-> store, generated |-> 0]
    ELSE LET r == _getOne(Table, store, q.options, t) IN
         [q |-> IF r.ok THEN Respond(Settle(q, r), 200, r.value)
                ELSE catchErrors(Settle(q, r), r.error),
          store |-> r.store, generated |-> r.generated]
\* the deleteOne handler on request q
deleteOneHandler(q, store, t) ==
    IF ~q.hasDb
    THEN [q |-> Return(q), store |-> store, generated |-> 0]
    ELSE LET r == _deleteOne(Table, store, q.options, t) IN
         [q |-> IF r.ok THEN Respond(Settle(q, r), 200, r.value)
                ELSE catchErrors(Settle(q, r), r.error),
          store |-> r.store, generated |-> r.generated]
\* a _getAll invocation q after its find: awaiting its lookups or its count,
\* or failed at the coercion
Found(q, found) ==
    IF found.ok
    THEN [q EXCEPT !.pc = IF found.pending # {} THEN "lookup" ELSE "count",
                   !.calls = found.calls, !.generated = found.generated] @@ [found |-> found]
    ELSE IF q.via = "handler" THEN catchErrors(Settle(q, found), found.error)
    ELSE Settle(q, found)
\* a _getAll invocation q once _getAll returned r: the getAll handler sends it
Counted(q, r) == IF q.via = "handler" THEN Respond(Settle(q, r), 200, r.value) ELSE Settle(q, r)

(* ------------------------ data access: actions ------------------------- *)
\* the identifiers removed and not stored again, after call q
Removed(q) ==
    IF q.result = Undefined \/ ~q.result.ok THEN removed
    ELSE IF q.op = "deleteOne" /\ "_id" \in DOMAIN q.calls[1].filter
    THEN removed \cup {q.calls[1].filter._id}
    ELSE IF q.op = "createOne" /\ "_id" \in DOMAIN q.calls[1].filter
    THEN removed \ {q.calls[1].filter._id}
    ELSE removed
\* a single-step call ends as q, leaving the store and the counter
Commit(q, store, generated) ==
    /\ ops < MaxOps
    /\ call' = q
    /\ db' = store
    /\ objectIdIndex' = objectIdIndex + generated
    /\ ops' = ops + 1
    /\ removed' = Removed(q)
    /\ UNCHANGED <<customErrorMessages, made, jwt, envSecret, secret, now, g, fetch>>
\* a direct call of one of the functions ends with r
Direct(op, options, object, r) ==
    Commit(Settle(NewDataCall(op, "direct", TRUE, options, object), r), r.store, r.generated)

GetOne ==
    \E options \in GetOneOptions :
        Direct("getOne", options, Undefined, _getOne(Table, db, options, now))
CreateOne ==
    \E object \in CreateObjects :
        Direct("createOne", <<>>, object, _createOne(Table, db, object, <<>>, now))
UpdateOne ==
    \E options \in UpdateOneOptions, object \in UpdateObjects :
        Direct("updateOne", options, object, _updateOne(Table, db, object, options, now))
DeleteOne ==
    \E options \in DeleteOneOptions :
        Direct("deleteOne", options, Undefined, _deleteOne(Table, db, options, now))
UpdateOneRequest ==
    \E req \in UpdateRequests :
        LET h == updateOne(NewDataCall("updateOne", "handler", req[3], req[1], req[2]), db, now)
        IN Commit(h.q, h.store, h.generated)
CreateOneRequest ==
    \E req \in CreateRequests :
        LET h == createOne(NewDataCall("createOne", "handler", req[2], <<>>, req[1]), db, now)
        IN Commit(h.q, h.store, h.generated)

GetOneRequest ==
    \E req \in GetOneRequests :
        LET h == getOne(NewDataCall("getOne", "handler", req[2], req[1], Undefined), db, now)
        IN Commit(h.q, h.store, h.generated)
DeleteOneRequest ==
    \E req \in DeleteOneRequests :
        LET h == deleteOneHandler(NewDataCall("deleteOne", "handler", req[2], req[1], Undefined),
                                  db, now)
        IN Commit(h.q, h.store, h.generated)

\* _getAll starts: it runs up to the await of its find
Begin(q) ==
    LET found == _getAllFind(Table, db, q.options) IN
    /\ ops < MaxOps
    /\ fetch.pc \in {"idle", "done"}
    /\ fetch' = Found(q, found)
    /\ objectIdIndex' = objectIdIndex + found.generated
    /\ ops' = ops + 1
    /\ UNCHANGED <<customErrorMessages, made, jwt, envSecret, secret, now, db, g, call, removed>>
GetAllFind ==
    \E options \in GetAllOptions :
        Begin(NewDataCall("getAll", "direct", TRUE, options, Undefined))
\* the getAll handler on a request: without req.db it returns at once
GetAllRequest ==
    \E req \in GetAllRequests :
        LET q == NewDataCall("getAll", "handler", req[2], req[1], Undefined) IN
        IF req[2] THEN Begin(q) ELSE Commit(Return(q), db, 0)
\* one of the pending foreign lookups settles, in any order
GetAllLookup ==
    /\ fetch.pc = "lookup"
    /\ \E i \in fetch.found.pending :
          LET found == _getAllLookup(db, fetch.found, fetch.options.lookup, i) IN
          fetch' = [fetch EXCEPT !.found = found,
                                 !.pc = IF found.pending = {} THEN "count" ELSE "lookup"]
    /\ UNCHANGED <<customErrorMessages, made, jwt, envSecret, secret, now, db, g, objectIdIndex, ops, call, removed>>
\* the count settles and _getAll returns its envelope
GetAllCount ==
    /\ fetch.pc = "count"
    /\ fetch' = Counted(fetch, _getAllCount(Table, db, fetch.found, now)) @@ [atCount |-> db]
    /\ UNCHANGED <<customErrorMessages, made, jwt, envSecret, secret, now, db, g, objectIdIndex, ops, call, removed>>

InitData ==
    /\ envSecret = Unset
    /\ secret = GuardSecret(envSecret)
    /\ now = MaxTime
    /\ db \in DataStores
    /\ g = <<>>
    /\ objectIdIndex = 0 /\ ops = 0
    /\ fetch = [pc |-> "idle"] /\ call = [pc |-> "idle"]
    /\ removed = {}
    /\ customErrorMessages = errorMessages
    /\ made = [pc |-> "idle"] /\ jwt = [pc |-> "idle"]
DataNext ==
    \/ GetAllFind \/ GetAllLookup \/ GetAllCount \/ GetOne
    \/ CreateOne \/ UpdateOne \/ DeleteOne
    \/ GetAllRequest \/ GetOneRequest \/ DeleteOneRequest
    \/ UpdateOneRequest \/ CreateOneRequest
DataSpec == InitData /\ [][DataNext]_vars

(* --------------------------- error taxonomy ---------------------------- *)
\* the language a caller declares: none, the default, one with renderers
\* supplied, one without
DeclaredLanguages == {Unset, "en", "fr", "de"}
\* the classes of the taxonomy and the table key each one reads
Classes ==
    {"DevelopmentError", "DocumentAlreadyExist", "DocumentNotExist", "InvalidId", "UrlNotExist",
     "TokenExpired", "NotLoggedIn", "InvalidCredentials", "UserNoLongerExists",
     "PermissionDenied", "InvalidToken"}
Kind(class) ==
    CASE class = "DocumentAlreadyExist" -> "documentAlreadyExist"
      [] class = "DocumentNotExist" -> "documentNotExit"
      [] class = "InvalidId" -> "invalidObjectId"
      [] class = "UrlNotExist" -> "urlNotExist"
      [] class = "TokenExpired" -> "tokenExpired"
      [] class = "NotLoggedIn" -> "notLoggedIn"
      [] class = "InvalidCredentials" -> "invalidCredentials"
      [] class = "UserNoLongerExists" -> "userNoLongerExist"
      [] class = "PermissionDenied" -> "permissionDenied"
      [] class = "InvalidToken" -> "invalidToken"
\* the constructor payloads tried for a class
ErrorPayloads(class) ==
    CASE class = "DevelopmentError" -> {Lit("Please assign a database to the request")}
      [] class \in {"DocumentAlreadyExist", "DocumentNotExist"} ->
            {[_id |-> ObjectId("a1")], [n |-> 1], Undefined}
      [] class \in {"InvalidId", "UserNoLongerExists"} -> {Str("zz"), Str("a1")}
      [] class \in {"UrlNotExist", "PermissionDenied"} -> {Str("/users"), Str("/admin")}
      [] class = "TokenExpired" -> {Num(1000), Num(2000)}
      [] OTHER -> {Undefined}
\* new <class>(payload, language)
Construct(class, payload, language) ==
    CASE class = "DevelopmentError" -> DevelopmentError(payload.lit)
      [] class = "DocumentAlreadyExist" -> DocumentAlreadyExistError(payload, language)
      [] class = "DocumentNotExist" -> DocumentNotExistError(payload, language)
      [] class = "InvalidId" -> InvalidIdError(payload, language)
      [] class = "UrlNotExist" -> UrlNotExistError(payload, language)
      [] class = "TokenExpired" -> TokenExpiredError(payload, language)
      [] class = "NotLoggedIn" -> NotLoggedInError(language)
      [] class = "InvalidCredentials" -> InvalidCredentialsError(language)
      [] class = "UserNoLongerExists" -> UserNoLongerExistsError(payload, language)
      [] class = "PermissionDenied" -> PermissionDeniedError(payload, language)
      [] class = "InvalidToken" -> InvalidTokenError(language)

\* the kinds a caller customizes and the entries supplied for one: a new
\* 'en' renderer, 'en' and 'fr' renderers, an 'fr' renderer alone (a caller
\* outside the type checker), and the optional property set to undefined
CustomKinds == {"invalidObjectId", "notLoggedIn", "permissionDenied"}
SuppliedEntries ==
    {[en |-> <<"Bad id: ", Hole>>], [en |-> <<"Bad id: ", Hole>>, fr |-> <<"Mauvais id : ", Hole>>],
     [fr |-> <<"Mauvais id : ", Hole>>], Undefined}
\* the arguments of setErrorMessages
CustomErrorMessages == UNION {[K -> SuppliedEntries] : K \in SUBSET CustomKinds}
\* customErrorMessages = { ...customErrorMessages, ...errorMessages }
setErrorMessages(table, supplied) == supplied @@ table

SetErrorMessages ==
    /\ \E supplied \in CustomErrorMessages :
          customErrorMessages' = setErrorMessages(customErrorMessages, supplied)
    /\ made' = [pc |-> "idle"]
    /\ UNCHANGED <<envSecret, secret, now, db, g, objectIdIndex, ops, fetch, call, removed, jwt>>
\* an error is constructed on the current table
ConstructError ==
    /\ \E class \in Classes, language \in DeclaredLanguages :
          \E payload \in ErrorPayloads(class) :
             made' = [pc |-> "done", class |-> class, payload |-> payload, language |-> language,
                      error |-> Construct(class, payload, language)]
    /\ UNCHANGED <<envSecret, secret, now, db, g, objectIdIndex, ops, fetch, call, removed,
                   customErrorMessages, jwt>>
InitErrors ==
    /\ envSecret = Unset
    /\ secret = GuardSecret(envSecret)
    /\ now = 0
    /\ db = [items |-> <<>>, refs |-> <<>>]
    /\ g = <<>>
    /\ objectIdIndex = 0 /\ ops = 0
    /\ fetch = [pc |-> "idle"] /\ call = [pc |-> "idle"]
    /\ removed = {}
    /\ customErrorMessages = errorMessages
    /\ made = [pc |-> "idle"] /\ jwt = [pc |-> "idle"]
ErrorsNext == SetErrorMessages \/ ConstructError
ErrorsSpec == InitErrors /\ [][ErrorsNext]_vars

(* ----------------------- token service round trip ---------------------- *)
\* constructor arguments: the secret (left out, given, given as '') and the
\* lifetime in seconds (left out, or given)
SecretArgs == {Unset, "s1", "k9", "", ServiceDefaultSecret}
ExpirationArgs == {Undefined} \cup {Num(n) : n \in 1..MaxTime}
\* the identifiers signed: raw strings, a number, a native identifier
SignedIds == {Str("a1"), Str("zz"), Num(5), ObjectId("a2")}

\* a service signs a token for an identifier
SignToken ==
    /\ \E secretArg \in SecretArgs, expirationArg \in ExpirationArgs, v \in SignedIds :
          LET service == JwtService(secretArg, expirationArg) IN
          jwt' = [pc |-> "signed", signer |-> service, id |-> v, signedAt |-> now,
                  token |-> signToken(service, v, now)]
    /\ UNCHANGED <<envSecret, secret, now, db, g, objectIdIndex, ops, fetch, call, removed,
                   customErrorMessages, made>>
\* a service, the signer or another one, verifies the last token signed
VerifyToken ==
    /\ jwt.pc \in {"signed", "verified"}
    /\ \E secretArg \in SecretArgs :
          LET service == JwtService(secretArg, Undefined) IN
          jwt' = [pc |-> "verified", signer |-> jwt.signer, id |-> jwt.id,
                  signedAt |-> jwt.signedAt, token |-> jwt.token,
                  verifier |-> service, verifiedAt |-> now,
                  result |-> verifyToken(service.secret, now, jwt.token)]
    /\ UNCHANGED <<envSecret, secret, now, db, g, objectIdIndex, ops, fetch, call, removed,
                   customErrorMessages, made>>
\* a second passes
Tick ==
    /\ now < MaxTime
    /\ now' = now + 1
    /\ UNCHANGED <<envSecret, secret, db, g, objectIdIndex, ops, fetch, call, removed,
                   customErrorMessages, made, jwt>>
InitToken ==
    /\ envSecret = Unset
    /\ secret = GuardSecret(envSecret)
    /\ now = 0
    /\ db = [items |-> <<>>, refs |-> <<>>]
    /\ g = <<>>
    /\ objectIdIndex = 0 /\ ops = 0
    /\ fetch = [pc |-> "idle"] /\ call = [pc |-> "idle"]
    /\ removed = {}
    /\ customErrorMessages = errorMessages
    /\ made = [pc |-> "idle"] /\ jwt = [pc |-> "idle"]
TokenNext == SignToken \/ VerifyToken \/ Tick
TokenSpec == InitToken /\ [][TokenNext]_vars

(* ------------------------- what a run ended with ----------------------- *)
Done(q) == q.pc = "done"
\* the failure an invocation ended with, delivered to next or thrown
Failure(q) ==
    IF q.rejected # Undefined THEN q.rejected
    ELSE IF q.nextCalls # <<>> THEN q.nextCalls[1]
    ELSE Undefined
Outcome(q) == IF Failure(q) = Undefined THEN "ok" ELSE Failure(q).name
Delivered(q) == q.rejected = Undefined /\ Len(q.nextCalls) = 1

\* facts about the token the invocation extracted, stated on the token itself
Signed(q) == Len(q.token) = 1 /\ "sig" \in DOMAIN q.token[1] /\ q.token[1].sig = secret
Claims(q) == q.token[1].payload
NotYetValid(q) == Signed(q) /\ "nbf" \in DOMAIN Claims(q) /\ Claims(q).nbf > now
Expired(q) == Signed(q) /\ "exp" \in DOMAIN Claims(q) /\ now >= Claims(q).exp
Verifies(q) == Signed(q) /\ ~NotYetValid(q) /\ ~Expired(q)
HasSubject(q) == "id" \in DOMAIN Claims(q)
WellFormedSubject(q) == HasSubject(q) /\ Claims(q).id.str \in ValidRawIds
StoredUsers(q) == {i \in 1..Len(db.users) : db.users[i]._id = [oid |-> Claims(q).id.str]}
StoredUser(q) == db.users[CHOOSE i \in StoredUsers(q) : TRUE]

(* ------------------------------- C1 ------------------------------------ *)
\* C1: a user is bound to the context only on full success: whenever
\* req.user / socket.user is set, the guard has ended by calling next with no
\* error; after any failure the slot is unset.
C1_UserOnlyOnSuccess ==
    \A r \in DOMAIN g :
        g[r].user # Undefined => Done(g[r]) /\ Outcome(g[r]) = "ok"

(* ------------------------------- C2 ------------------------------------ *)
\* C2: a correctly signed token that is not yet valid makes the guard fail
\* with TokenExpired carrying the token's valid-from instant, not InvalidToken.
C2_NotBeforeIsTokenExpired ==
    \A r \in DOMAIN g :
        Done(g[r]) /\ g[r].verifyCalls = 1 /\ NotYetValid(g[r]) =>
            /\ Outcome(g[r]) = "TokenExpired"
            /\ Failure(g[r]).expiredAt = Claims(g[r]).nbf * MsPerSecond

(* ------------------------------- C3 ------------------------------------ *)
\* C3: every guard invocation ends by calling its continuation exactly once,
\* with no argument on success and with the failure otherwise; no failure
\* escapes as a thrown error.
C3_NextExactlyOnce ==
    \A r \in DOMAIN g :
        /\ Len(g[r].nextCalls) <= 1
        /\ Done(g[r]) => Len(g[r].nextCalls) = 1 /\ g[r].rejected = Undefined

(* ------------------------------- C4 ------------------------------------ *)
\* C4: in every guard implementation, a token that verifies and carries a
\* well-formed subject id with no document in users ends in
\* UserNoLongerExists(id), status 404, and no user is attached.
C4_UnknownSubject ==
    \A r \in DOMAIN g :
        Done(g[r]) /\ g[r].verifyCalls = 1 /\ Verifies(g[r])
          /\ WellFormedSubject(g[r]) /\ StoredUsers(g[r]) = {} =>
            /\ Outcome(g[r]) = "UserNoLongerExists"
            /\ Failure(g[r]).statusCode = 404
            /\ Failure(g[r]).message[2] = Claims(g[r]).id
            /\ g[r].user = Undefined

(* ------------------------------- C5 ------------------------------------ *)
HeaderToken(q) ==
    /\ Len(q.authorization) >= 2
    /\ q.authorization[1] \in {Bearer, Lit("BearerX")}
    /\ q.authorization[2] # E
CookieToken(q) ==
    /\ q.cookies # Undefined
    /\ "jwt" \in DOMAIN q.cookies
    /\ q.cookies.jwt # <<>> /\ q.cookies.jwt # <<E>>
\* C5: protect fails with NotLoggedIn exactly when neither the Authorization
\* header nor the jwt cookie supplies a token; a request with a jwt cookie
\* never fails with NotLoggedIn.
C5_NotLoggedInIffNoToken ==
    \A r \in DOMAIN g :
        g[r].variant \in {"protect", "protect2"} /\ g[r].hasDb /\ Done(g[r]) =>
            (Outcome(g[r]) = "NotLoggedIn" <=> ~HeaderToken(g[r]) /\ ~CookieToken(g[r]))

(* ------------------------------- C6 ------------------------------------ *)
\* C6: when JWT_SECRET is not supplied, no token signed with a built-in
\* default secret passes verification and reaches the user-load step.
C6_NoDefaultSecret ==
    \A r \in DOMAIN g :
        envSecret = Unset /\ Len(g[r].token) = 1 /\ "sig" \in DOMAIN g[r].token[1]
          /\ g[r].token[1].sig \in {"change this secret", "secret"} =>
            g[r].pc # "load" /\ g[r].storeReads = 0

C8_NoDbShortCircuit ==
    \A r \in DOMAIN g :
        ~g[r].hasDb =>
            /\ g[r].pc \in {"start", "done"}
            /\ g[r].token = <<>> /\ g[r].decoded = Undefined
            /\ g[r].verifyCalls = 0 /\ g[r].storeReads = 0
            /\ g[r].user = Undefined
            /\ Done(g[r]) =>
                 Outcome(g[r]) = "DevelopmentError" /\ Failure(g[r]).statusCode = 500
C8_Witness ==
    \E r \in DOMAIN g :
        /\ ~g[r].hasDb /\ Done(g[r])
        /\ Len(g[r].authorization) = 2 /\ g[r].authorization[1] = Bearer
        /\ "sig" \in DOMAIN g[r].authorization[2]
        /\ g[r].authorization[2].sig = secret
        /\ DOMAIN g[r].authorization[2].payload = {"id"}
        /\ Outcome(g[r]) = "DevelopmentError"

(* ------------------------------- C9 ------------------------------------ *)
\* C9: protect and socketProtect, run side by side on the same credential,
\* store and allow-list, end with the same outcome kind (and the same
\* timestamp for TokenExpired, the same id for UserNoLongerExists).
C9_SameOutcome ==
    Len(g) = 2 /\ Done(g[1]) /\ Done(g[2]) =>
        /\ Outcome(g[1]) = Outcome(g[2])
        /\ Outcome(g[1]) = "TokenExpired" => Failure(g[1]).expiredAt = Failure(g[2]).expiredAt
        /\ Outcome(g[1]) = "UserNoLongerExists" => Failure(g[1]).message = Failure(g[2]).message

(* ------------------------------- C10 ----------------------------------- *)
\* C10: a correctly signed token presented after its expiry ends in
\* TokenExpired, status 401, with expiredAt = the token's expiry instant in
\* milliseconds; an invalid signature or format, or a verified payload with no
\* id, ends in InvalidToken, status 401; the store is queried in neither case.
C10_ExpiredOrInvalid ==
    \A r \in DOMAIN g :
        Done(g[r]) /\ g[r].verifyCalls = 1 =>
            /\ Expired(g[r]) =>
                 /\ Outcome(g[r]) = "TokenExpired"
                 /\ Failure(g[r]).statusCode = 401
                 /\ Failure(g[r]).expiredAt = Claims(g[r]).exp * MsPerSecond
                 /\ g[r].storeReads = 0
            /\ ~Signed(g[r]) \/ (Verifies(g[r]) /\ ~HasSubject(g[r])) =>
                 /\ Outcome(g[r]) = "InvalidToken"
                 /\ Failure(g[r]).statusCode = 401
                 /\ g[r].storeReads = 0
\* the same statement holds of every expired token that is not also not yet
\* valid (an invariant of Spec): only the not-before mapping breaks it
ExpiredAndActiveOrInvalid ==
    \A r \in DOMAIN g :
        Done(g[r]) /\ g[r].verifyCalls = 1 =>
            /\ Expired(g[r]) /\ ~NotYetValid(g[r]) =>
                 /\ Outcome(g[r]) = "TokenExpired"
                 /\ Failure(g[r]).statusCode = 401
                 /\ Failure(g[r]).expiredAt = Claims(g[r]).exp * MsPerSecond
                 /\ g[r].storeReads = 0
            /\ ~Signed(g[r]) \/ (Verifies(g[r]) /\ ~HasSubject(g[r])) =>
                 /\ Outcome(g[r]) = "InvalidToken"
                 /\ Failure(g[r]).statusCode = 401
                 /\ g[r].storeReads = 0

(* ----------------------- data access: outcomes ------------------------- *)
\* the data-access calls that have started
DataCalls == {q \in {fetch, call} : q.pc # "idle"}
\* the call got past its handler's checks and ran the function
Entered(q) == ~(q.via = "handler" /\ q.result = Undefined)
Succeeded(q) == q.pc = "done" /\ q.result # Undefined /\ q.result.ok
Failed(q, name) ==
    q.pc = "done" /\ q.result # Undefined /\ ~q.result.ok /\ q.result.error.name = name
\* the caller put an _id in the filter
SuppliedId(q) == "filter" \in DOMAIN q.options /\ "_id" \in DOMAIN q.options.filter
\* the filter of the call's first store call, {} for the driver's default
UsedFilter(q) == IF q.calls[1].filter = Undefined THEN <<>> ELSE q.calls[1].filter
\* the documents of the handlers' collection in a store
Items(store) == store[Table]
Without(doc, f) == [k \in DOMAIN doc \ {f} |-> doc[k]]
RemoveAt(docs, i) == [k \in 1..(Len(docs) - 1) |-> IF k < i THEN docs[k] ELSE docs[k + 1]]

(* C11: in FetchMany, FetchOne, UpdateOne and DeleteOne every filter that     *)
(* reaches the store with an _id carries it in native form, whatever raw      *)
(* value was supplied (falsy ones included); an _id that cannot be coerced    *)
(* fails the call with InvalidId before any store call, the store unchanged.  *)
C11_FilterIdsNative ==
    \A q \in DataCalls :
        q.op \in {"getAll", "getOne", "updateOne", "deleteOne"} =>
          /\ \A i \in 1..Len(q.calls) :
                "_id" \in DOMAIN q.calls[i].filter => "oid" \in DOMAIN q.calls[i].filter._id
          /\ Entered(q) /\ SuppliedId(q) /\ ~ObjectIdIsValid(q.options.filter._id) =>
                /\ Failed(q, "InvalidId")
                /\ q.calls = <<>>
                /\ q = call => db = q.before

(* C12: id(raw) succeeds on every raw value the validity predicate accepts,  *)
(* id(id(raw)) = id(raw), and two coercions of the same raw value are equal;  *)
(* on every raw value the predicate rejects it fails with InvalidId (400)     *)
(* and has no side effect.                                                    *)
C12_CoercionIdempotent ==
    /\ \A v \in RawIdValues :
          IF ObjectIdIsValid(v)
          THEN id(v).ok /\ id(id(v).value) = id(v)
          ELSE ~id(v).ok /\ id(v).error.name = "InvalidId" /\ id(v).error.statusCode = 400
    /\ \A q1 \in DataCalls, q2 \in DataCalls :
          /\ SuppliedId(q1) /\ SuppliedId(q2) /\ q1.calls # <<>> /\ q2.calls # <<>>
          /\ q1.options.filter._id = q2.options.filter._id
          /\ ~Falsy(q1.options.filter._id)
          => q1.calls[1].filter._id = q2.calls[1].filter._id
    /\ \A q \in DataCalls :
          Entered(q) /\ SuppliedId(q) /\ ~Falsy(q.options.filter._id)
                     /\ ~ObjectIdIsValid(q.options.filter._id) =>
            q.calls = <<>> /\ q.generated = 0 /\ (q = call => db = q.before)

\* the page and page size a caller asked for, with the defaults
AskedPage(o) == IF "page" \in DOMAIN o THEN o.page ELSE DefaultPage
AskedLimit(o) == IF "limit" \in DOMAIN o THEN o.limit ELSE DefaultLimit
AskedSort(o) == IF "sort" \in DOMAIN o THEN o.sort ELSE <<>>
\* the position (from 0) of document i among the documents S of coll, in sort order
Rank(coll, S, sort, i) ==
    Cardinality({k \in S : \/ SortsBefore(coll[k], coll[i], sort)
                           \/ ~SortsBefore(coll[i], coll[k], sort) /\ k < i})
\* a returned document is the stored one, the joined field apart
SameDoc(d, src, o) ==
    IF LookupConfigured(o)
    THEN Without(d, AsField(o.lookup)) = Without(src, AsField(o.lookup))
    ELSE d = src
\* a _getAll call that returned, on a store no call changed meanwhile
QuietFetch ==
    fetch.pc = "done" /\ fetch.result.ok /\ fetch.atCount = fetch.before

(* C13: on a store not modified during the call, FetchMany with page >= 1     *)
(* and limit >= 1 (defaults 1 and 20) returns exactly the documents at        *)
(* positions (page-1)*limit .. page*limit-1 of the filter's matches in sort   *)
(* order; totalDocs counts all matches, totalPages = ceil(totalDocs/limit),   *)
(* currentPage is the page asked for; a page past the end is data = [].       *)
C13_Page ==
    QuietFetch /\ AskedPage(fetch.options) >= 1 /\ AskedLimit(fetch.options) >= 1 =>
      LET o == fetch.options
          coll == Items(fetch.before)
          env == fetch.result.value
          S == {i \in 1..Len(coll) : Matches(coll[i], UsedFilter(fetch))}
          first == (AskedPage(o) - 1) * AskedLimit(o)
          rest == Cardinality(S) - first
      IN /\ Len(env.data) = (IF rest > AskedLimit(o) THEN AskedLimit(o)
                              ELSE IF rest > 0 THEN rest ELSE 0)
         /\ Len(env.data) <= AskedLimit(o)
         /\ \A j \in 1..Len(env.data) :
               \E i \in S : /\ Rank(coll, S, AskedSort(o), i) = first + j - 1
                             /\ SameDoc(env.data[j], coll[i], o)
         /\ env.totalDocs = Cardinality(S)
         /\ env.totalPages * AskedLimit(o) >= env.totalDocs
         /\ (env.totalPages - 1) * AskedLimit(o) < env.totalDocs
         /\ env.currentPage = AskedPage(o)
         /\ env.status = "success"
\* three documents, page 2 of size 2: one document, two pages
C13_Witness ==
    /\ QuietFetch
    /\ Len(Items(fetch.before)) = 3
    /\ fetch.options = [page |-> 2, limit |-> 2, sort |-> [n |-> -1]]
    /\ Len(fetch.result.value.data) = 1
    /\ fetch.result.value.totalPages = 2

\* a single-step call of the function op that reached the store
Ran(op) == call.pc = "done" /\ call.op = op /\ call.calls # <<>>
\* no document of the collection matched the filter the call used
NoMatch(q) == \A i \in 1..Len(Items(q.before)) : ~Matches(Items(q.before)[i], UsedFilter(q))

(* C14: FetchOne with a filter that matches no document returns a success    *)
(* envelope with data = null, never DocumentNotExist, with or without a       *)
(* lookup (the lookup is skipped, no alias field appears); store unchanged.   *)
C14_FetchOneNoMatch ==
    Ran("getOne") /\ NoMatch(call) =>
        /\ Succeeded(call)
        /\ call.result.value.status = "success"
        /\ call.result.value.data = Null
        /\ Len(call.calls) = 1
        /\ db = call.before
C14_Witness ==
    /\ Ran("getOne") /\ NoMatch(call)
    /\ LookupConfigured(call.options)
    /\ Len(Items(call.before)) > 0

(* C15: UpdateOne and DeleteOne with a filter that matches no document fail   *)
(* with DocumentNotExist (404) carrying the filter that was used, return no   *)
(* success envelope and leave every document unchanged.                       *)
C15_NoMatchFails ==
    (Ran("updateOne") \/ Ran("deleteOne")) /\ "filter" \in DOMAIN call.options /\ NoMatch(call) =>
        /\ Failed(call, "DocumentNotExist")
        /\ call.result.error.statusCode = 404
        /\ call.result.error.filter = call.calls[1].filter
        /\ call.sent = <<>>
        /\ call.via = "handler" => call.nextCalls = <<call.result.error>>
        /\ db = call.before
C15_Witness ==
    /\ Ran("updateOne") /\ NoMatch(call)
    /\ call.via = "handler"
    /\ Len(Items(call.before)) > 0
    /\ Failed(call, "DocumentNotExist")

(* C16: UpdateOne requires a filter: without one it fails and modifies no     *)
(* document, through the updateOne handler and when _updateOne is called      *)
(* directly; it never falls back to a match-everything filter.                *)
C16_UpdateNeedsFilter ==
    call.pc = "done" /\ call.op = "updateOne" /\ ~("filter" \in DOMAIN call.options) =>
        /\ ~Succeeded(call)
        /\ call.sent = <<>>
        /\ call.calls = <<>>
        /\ db = call.before

(* C17: a successful UpdateOne applies the update to exactly one document     *)
(* matching the filter, in one store step, and leaves the others unchanged;   *)
(* data is the post-update document when returnNew is exactly true and the    *)
(* pre-update document otherwise; returnedNew = (returnNew === true).         *)
C17_UpdateOne ==
    Ran("updateOne") /\ Succeeded(call) =>
      LET old == Items(call.before)
          new == Items(db)
          env == call.result.value
          exact == "returnNew" \in DOMAIN call.options /\ call.options.returnNew = Bool(TRUE)
      IN /\ Len(call.calls) = 1
         /\ Len(new) = Len(old)
         /\ \E i \in 1..Len(old) :
               /\ Matches(old[i], UsedFilter(call))
               /\ \A j \in 1..Len(old) : j # i => new[j] = old[j]
               /\ DOMAIN new[i] = DOMAIN old[i] \cup DOMAIN call.object.set
               /\ \A f \in DOMAIN new[i] :
                     new[i][f] = IF f \in DOMAIN call.object.set
                                 THEN call.object.set[f] ELSE old[i][f]
               /\ env.data = IF exact THEN new[i] ELSE old[i]
         /\ env.returnedNew = exact
         /\ \A c \in DOMAIN db : c # Table => db[c] = call.before[c]
C17_Witness ==
    /\ Ran("updateOne") /\ Succeeded(call)
    /\ Len(Items(call.before)) >= 2
    /\ "returnNew" \in DOMAIN call.options /\ call.options.returnNew = Str("true")
    /\ call.result.value.data.n # 7
    /\ \E i \in 1..Len(Items(db)) : Items(db)[i].n = 7

\* the step is a new single-step call of deleteOne by identifier
DeletesById ==
    /\ ops' = ops + 1 /\ call'.pc = "done" /\ call'.seq = ops' /\ call'.op = "deleteOne"
    /\ call'.calls # <<>> /\ "_id" \in DOMAIN UsedFilter(call')

(* C18: a successful DeleteOne removes exactly one document matching the      *)
(* filter and leaves the others unchanged; once a DeleteOne by identifier     *)
(* has succeeded, every later DeleteOne with that identifier fails with       *)
(* DocumentNotExist until a document with that identifier is created again.   *)
C18_DeleteOnce ==
    /\ [](Ran("deleteOne") /\ Succeeded(call) =>
            /\ \E i \in 1..Len(Items(call.before)) :
                  /\ Matches(Items(call.before)[i], UsedFilter(call))
                  /\ Items(db) = RemoveAt(Items(call.before), i)
            /\ \A c \in DOMAIN db : c # Table => db[c] = call.before[c])
    /\ [][DeletesById /\ UsedFilter(call')._id \in removed =>
            Failed(call', "DocumentNotExist") /\ db' = db]_vars
C18_Witness ==
    /\ Ran("deleteOne") /\ Failed(call, "DocumentNotExist")
    /\ "_id" \in DOMAIN UsedFilter(call)
    /\ UsedFilter(call)._id \in removed
    /\ Len(Items(db)) > 0

\* CreateOne appends one document holding the supplied fields
InsertsOne ==
    LET old == Items(call.before)
        new == Items(db)
    IN /\ Len(new) = Len(old) + 1
       /\ SubSeq(new, 1, Len(old)) = old
       /\ Without(new[Len(new)], "_id") = Without(call.object, "_id")
       /\ "_id" \in DOMAIN call.object => new[Len(new)] = call.object
       /\ \A c \in DOMAIN db : c # Table => db[c] = call.before[c]

(* C19: CreateOne inserts exactly one new document holding the supplied       *)
(* fields, leaves the existing documents unchanged and returns a success      *)
(* envelope whose data is the payload as the caller gave it, without the      *)
(* store-generated identifier; a payload without _id is inserted again by     *)
(* every call.                                                                *)
C19_CreateEchoesPayload ==
    /\ Ran("createOne") /\ Succeeded(call) =>
          InsertsOne /\ call.result.value.data = call.object
    /\ Ran("createOne") /\ ~("_id" \in DOMAIN call.object) => Succeeded(call)

(* C19, as the code has it: the envelope's data is the document as stored:    *)
(* the payload together with the identifier the driver generated for it.      *)
C19_CreateReturnsStored ==
    /\ Ran("createOne") /\ Succeeded(call) =>
          /\ InsertsOne
          /\ call.result.value.data = Items(db)[Len(Items(db))]
          /\ "_id" \in DOMAIN call.result.value.data
          /\ call.via = "handler" =>
                call.sent = <<[status |-> 201, json |-> call.result.value]>>
    /\ Ran("createOne") /\ ~("_id" \in DOMAIN call.object) => Succeeded(call)
\* the same payload, without _id, created twice: two documents
C19_Witness ==
    /\ Ran("createOne") /\ Succeeded(call)
    /\ ~("_id" \in DOMAIN call.object)
    /\ Len(Items(db)) = 2
    /\ Without(Items(db)[1], "_id") = call.object
    /\ Without(Items(db)[2], "_id") = call.object
    /\ Items(db)[1] # Items(db)[2]

\* document d of a result carries the join of its stored source under lk
Joined(d, store, lk) ==
    \E i \in 1..Len(Items(store)) :
      LET src == Items(store)[i]
          foreign == store[lk.foreign_collection]
          hits == {k \in 1..Len(foreign) :
                     /\ lk.local_field \in DOMAIN src
                     /\ lk.foreign_field \in DOMAIN foreign[k]
                     /\ foreign[k][lk.foreign_field] = src[lk.local_field]}
      IN /\ src._id = d._id
         /\ AsField(lk) \in DOMAIN d
         /\ IF hits = {} THEN d[AsField(lk)] = Null
            ELSE \E k \in hits : d[AsField(lk)] = foreign[k]

(* C20: with a lookup configured, every document in FetchMany's data and the  *)
(* document FetchOne returns carries the alias field (as, else local_field):  *)
(* a document of the foreign collection whose foreign_field equals the        *)
(* result's local_field value when there is one, null when there is none;     *)
(* the field is never missing and the attached document is not enriched.      *)
C20_Lookup ==
    /\ fetch.pc = "done" /\ fetch.result.ok /\ LookupConfigured(fetch.options) =>
          \A j \in 1..Len(fetch.result.value.data) :
              Joined(fetch.result.value.data[j], fetch.before, fetch.options.lookup)
    /\ Ran("getOne") /\ Succeeded(call) /\ LookupConfigured(call.options)
                     /\ call.result.value.data # Null =>
          Joined(call.result.value.data, call.before, call.options.lookup)
C20_Witness ==
    /\ fetch.pc = "done" /\ fetch.result.ok /\ LookupConfigured(fetch.options)
    /\ \E j \in 1..Len(fetch.result.value.data) :
          fetch.result.value.data[j][AsField(fetch.options.lookup)] = Null
    /\ \E j \in 1..Len(fetch.result.value.data) :
          fetch.result.value.data[j][AsField(fetch.options.lookup)] = RefDocs[1]
    /\ Ran("getOne") /\ Succeeded(call) /\ LookupConfigured(call.options)
    /\ call.result.value.data # Null

(* C21: in _getAll with a lookup the foreign lookups settle in any order,     *)
(* yet the envelope's data holds the documents in the order the paginated    *)
(* find returned them, each with the lookup result of its own local field.   *)
C21_LookupOrder ==
    Succeeded(fetch) /\ LookupConfigured(fetch.options) =>
      LET data == fetch.result.value.data
          docs == fetch.found.docs
          lk == fetch.options.lookup
      IN /\ Len(data) = Len(docs)
         /\ \A j \in 1..Len(data) :
               /\ Without(data[j], AsField(lk)) = Without(docs[j], AsField(lk))
               /\ data[j][AsField(lk)] =
                     findOne(fetch.before[lk.foreign_collection], ForeignFilter(lk, docs[j]))
\* two documents whose lookups settled in reverse order and found different
\* things
C21_Witness ==
    /\ Succeeded(fetch) /\ LookupConfigured(fetch.options)
    /\ Len(fetch.result.value.data) >= 2
    /\ fetch.found.order[1] > fetch.found.order[2]
    /\ fetch.result.value.data[1][AsField(fetch.options.lookup)] = RefDocs[1]
    /\ fetch.result.value.data[2][AsField(fetch.options.lookup)] = Null

\* the handler calls that have returned
Returned == {q \in DataCalls : q.via = "handler" /\ q.pc = "done"}
(* C22: every invocation of a data-access handler (getAll, getOne, createOne, *)
(* updateOne, deleteOne) ends with exactly one of: one success response       *)
(* sent, or one error passed unchanged to next and no response; also when     *)
(* req.db has not been assigned.                                              *)
C22_ResponseOrError ==
    \A q \in Returned :
        \/ Len(q.sent) = 1 /\ q.nextCalls = <<>> /\ Succeeded(q)
        \/ /\ q.sent = <<>> /\ Len(q.nextCalls) = 1
           /\ q.result # Undefined => q.nextCalls[1] = q.result.error

(* C27: every _getAll success envelope is consistent even when other calls    *)
(* create or delete matching documents between its find and its count:       *)
(* data.length <= totalDocs, and data is empty when currentPage > totalPages. *)
C27_EnvelopeConsistent ==
    Succeeded(fetch) =>
      LET env == fetch.result.value
      IN /\ Len(env.data) <= env.totalDocs
         /\ env.currentPage > env.totalPages => env.data = <<>>

(* C28: a guard invocation reads the store at most once, and only after the   *)
(* token was extracted, passed verification and was found to carry a subject *)
(* id: a request with no token, an invalid token, an expired token or a      *)
(* payload without id causes no store read; no guard step writes the store.  *)
C28_StoreReads ==
    /\ [](\A r \in DOMAIN g :
            LET q == g[r] IN
            /\ q.storeReads <= 1
            /\ q.storeReads = 1 =>
                  /\ Truthy(q.token) /\ verifyToken(secret, now, q.token).ok
                  /\ q.decoded # Undefined /\ ~NoSubject(q.decoded)
            /\ Done(q) /\ Outcome(q) \in {"NotLoggedIn", "InvalidToken", "TokenExpired"} =>
                  q.storeReads = 0)
    /\ [][db' = db]_vars
\* a verified payload without id ended the invocation
C28_Witness ==
    \E r \in DOMAIN g :
        /\ g[r].variant = "protect" /\ Done(g[r])
        /\ g[r].decoded # Undefined /\ NoSubject(g[r].decoded)
        /\ g[r].verifyCalls = 1 /\ g[r].storeReads = 0

Arrived(q) == NewCall(q.variant, q.hasDb, q.roles, q.url, q.authorization, q.cookies, q.authToken)
\* what an invocation ends as when no other request is in flight
Alone(q) ==
    LET b == protectBegin(q) IN
    IF b.pc = "done" THEN b
    ELSE LET v == protectVerified(b) IN
         IF v.pc = "done" THEN v ELSE protectLoaded(v)
\* the subject of the token a request presents in its Authorization header
OwnSubject(q) == q.authorization[2].payload.id
(* C26: protect invocations of concurrent requests do not interfere: under    *)
(* every interleaving of their store calls a request's outcome depends only  *)
(* on its own credential, its own allow-list and the store, and the user     *)
(* attached to a request is the stored user whose identifier is the subject  *)
(* of that request's own token, never the user of another request in flight. *)
C26_NoInterference ==
    \A r \in DOMAIN g :
        Done(g[r]) =>
          /\ g[r] = Alone(Arrived(g[r]))
          /\ \A o \in DOMAIN g :
                Done(g[o]) /\ Arrived(g[o]) = Arrived(g[r]) => g[o] = g[r]
          /\ g[r].user # Undefined =>
                /\ g[r].user \in {db.users[i] : i \in 1..Len(db.users)}
                /\ g[r].user._id = ObjectId(OwnSubject(g[r]).str)
\* two requests in flight together, each with the user of its own token
\* attached, one let through and one denied
C26_Witness ==
    /\ Len(g) = 2 /\ Done(g[1]) /\ Done(g[2])
    /\ g[1].user # Undefined /\ g[2].user # Undefined
    /\ g[1].user # g[2].user
    /\ Outcome(g[1]) # Outcome(g[2])

\* an error of the taxonomy was constructed
Made == made.pc = "done" /\ made.error.name = made.class
(* C23: every error of the taxonomy carries the status code fixed for its     *)
(* kind, whatever the payload and language: InvalidId 400, DocumentNotExist  *)
(* 404, DocumentAlreadyExist 409, NotLoggedIn 401, InvalidToken 401,          *)
(* TokenExpired 401, UserNoLongerExists 404, PermissionDenied 403,            *)
(* DevelopmentError 500; and DocumentNotExist, DocumentAlreadyExist,          *)
(* TokenExpired and PermissionDenied keep their payload (filter, duplicated, *)
(* expiredAt, url) on the error value.                                       *)
C23_StatusCodes ==
    Made =>
      /\ made.class = "InvalidId" => made.error.statusCode = 400
      /\ made.class = "DocumentNotExist" =>
            made.error.statusCode = 404 /\ made.error.filter = made.payload
      /\ made.class = "DocumentAlreadyExist" =>
            /\ made.error.statusCode = 409
            /\ "duplicated" \in DOMAIN made.error /\ made.error.duplicated = made.payload
      /\ made.class = "NotLoggedIn" => made.error.statusCode = 401
      /\ made.class = "InvalidToken" => made.error.statusCode = 401
      /\ made.class = "TokenExpired" =>
            made.error.statusCode = 401 /\ made.error.expiredAt = made.payload
      /\ made.class = "UserNoLongerExists" => made.error.statusCode = 404
      /\ made.class = "PermissionDenied" =>
            made.error.statusCode = 403 /\ made.error.url = made.payload
      /\ made.class = "DevelopmentError" => made.error.statusCode = 500
\* a conflict error made for a caller who declared 'fr', on a customized table
C23_Witness ==
    /\ Made /\ made.class = "DocumentAlreadyExist" /\ made.language = "fr"
    /\ made.payload = [_id |-> ObjectId("a1")]
    /\ customErrorMessages # errorMessages

(* C24: the message of a localized error is the rendering of its kind in the  *)
(* caller's declared language when the current table has a renderer for     *)
(* that language, and otherwise (no language declared, or no renderer for    *)
(* it) the 'en' rendering with the same payload; DevelopmentError is never   *)
(* localized and carries its raw message.                                    *)
C24_LocalizedMessage ==
    made.pc = "done" =>
      IF made.class = "DevelopmentError"
      THEN made.error.message = <<made.payload.lit>>
      ELSE LET entry == customErrorMessages[Kind(made.class)] IN
           IF made.language # Unset /\ made.language \in DOMAIN entry
           THEN Made /\ made.error.message = Render(entry[made.language], made.payload)
           ELSE /\ Made /\ "en" \in DOMAIN entry
                /\ made.error.message = Render(entry.en, made.payload)

(* C25: after any sequence of setErrorMessages calls every error kind of the  *)
(* table still has an 'en' renderer, so every localized error constructed    *)
(* afterwards, for any declared language, has a defined message.             *)
C25_DefaultRendererKept ==
    /\ \A kind \in DOMAIN customErrorMessages :
          customErrorMessages[kind] # Undefined /\ "en" \in DOMAIN customErrorMessages[kind]
    /\ made.pc = "done" => Made /\ made.error.message # <<>>

(* C30: round trip of a JwtService with secret S and lifetime L seconds: a    *)
(* token signed by signToken(id) at time t verifies with the same service to *)
(* a payload whose id equals the signed id at every time before t + L, fails *)
(* as expired, with expiry instant t + L, at every time after t + L, and      *)
(* fails as invalid at any time with a service of a different secret.        *)
C30_RoundTrip ==
    jwt.pc = "verified" =>
      LET expiry == jwt.signedAt + jwt.signer.tokenExpirationInSeconds
          same == jwt.verifier.secret = jwt.signer.secret
          r == jwt.result
      IN /\ same /\ jwt.verifiedAt < expiry => r.ok /\ r.value.id = jwt.id
         /\ same /\ jwt.verifiedAt > expiry =>
               /\ ~r.ok /\ r.error.class = "TokenExpiredError"
               /\ r.error.expiredAt = expiry * MsPerSecond
         /\ ~same => ~r.ok /\ r.error.class = "JsonWebTokenError"
====
